---- MODULE Spec2Model ----
(***************************************************************************)
(* Model of PAUTA-JRT2.js: a Playwright robot that walks the JTe "Pauta"   *)
(* page over a cross product of units (varas) and dates, in two variants   *)
(* kept in the same file: the calendar-grid variant (lines 1-521) and the  *)
(* linear-stepper variant with MySQL, XLSX and e-mail (lines 523-1369).    *)
(*                                                                         *)
(* The browser session is the environment: what a read returns, whether a  *)
(* click lands and whether a wait times out are nondeterministic choices.  *)
(* page.waitForTimeout is a timer and never fails.  Strings that the code  *)
(* formats, parses or searches are sequences of one-character strings.     *)
(***************************************************************************)
EXTENDS Integers, Sequences, FiniteSets, TLC

(***************************************************************************)
(* Strings and dates                                                       *)
(***************************************************************************)

Digits == <<"0", "1", "2", "3", "4", "5", "6", "7", "8", "9">>

IsDigit(c) == \E i \in 1..10 : Digits[i] = c

DigitVal(c) == (CHOOSE i \in 1..10 : Digits[i] = c) - 1

\* a word character of a JavaScript regular expression (\w); the model's
\* strings hold letters, digits, the blank, the slash and the full stop
IsWordChar(c) == c \notin {" ", "/", "."}

\* String(n) for n >= 0
RECURSIVE NumStr(_)
NumStr(n) == IF n < 10 THEN <<Digits[n + 1]>>
             ELSE NumStr(n \div 10) \o <<Digits[(n % 10) + 1]>>

\* String(n).padStart(2, '0')
PadStart2(s) == IF Len(s) < 2 THEN <<"0">> \o s ELSE s

\* Number(s) for a string of digits; the empty string is 0
RECURSIVE NumberOf(_)
NumberOf(s) == IF Len(s) = 0 THEN 0
               ELSE 10 * NumberOf(SubSeq(s, 1, Len(s) - 1)) + DigitVal(s[Len(s)])

\* s.includes(t)
Includes(s, t) == \E i \in 1..(Len(s) - Len(t) + 1) : SubSeq(s, i, i + Len(t) - 1) = t

\* s.trim(): the model's only white space is the blank
RECURSIVE Trim(_)
Trim(s) == IF Len(s) = 0 THEN s
           ELSE IF s[1] = " " THEN Trim(Tail(s))
           ELSE IF s[Len(s)] = " " THEN Trim(SubSeq(s, 1, Len(s) - 1))
           ELSE s

\* Days since 1970-01-01 of the proleptic Gregorian date (y, m, d), 1 <= m <= 12
DaysFromCivil(y, m, d) ==
    LET yy  == IF m <= 2 THEN y - 1 ELSE y
        era == yy \div 400
        yoe == yy - era * 400
        mp  == (m + 9) % 12
        doy == (153 * mp + 2) \div 5 + d - 1
        doe == yoe * 365 + yoe \div 4 - yoe \div 100 + doy
    IN  era * 146097 + doe - 719468

\* new Date(yyyy, monthIndex, dd) at local midnight, as a day number; like the
\* Date constructor it carries a month index outside 0..11 into the year and
\* a day outside the month into the neighbouring months
NewDate(yyyy, monthIndex, dd) ==
    LET y == yyyy + (monthIndex \div 12)
        m == (monthIndex % 12) + 1
    IN  DaysFromCivil(y, m, 1) + dd - 1

\* the civil date of a day number: [y, m (1..12), d]
CivilFromDays(z) ==
    LET zz  == z + 719468
        era == zz \div 146097
        doe == zz - era * 146097
        yoe == (doe - doe \div 1460 + doe \div 36524 - doe \div 146096) \div 365
        doy == doe - (365 * yoe + yoe \div 4 - yoe \div 100)
        mp  == (5 * doy + 2) \div 153
        d   == doy - (153 * mp + 2) \div 5 + 1
        m   == IF mp < 10 THEN mp + 3 ELSE mp - 9
        y   == yoe + era * 400
    IN  [y |-> IF m <= 2 THEN y + 1 ELSE y, m |-> m, d |-> d]

\* Date.prototype.getDay(): 0 is Sunday
GetDay(z) == (z + 4) % 7

\* the fields of br.split('/'), as strings
RECURSIVE SplitSlash(_)
SplitSlash(s) ==
    IF \A i \in 1..Len(s) : s[i] # "/" THEN <<s>>
    ELSE LET k == CHOOSE i \in 1..Len(s) : s[i] = "/" /\ \A j \in 1..(i - 1) : s[j] # "/"
         IN  <<SubSeq(s, 1, k - 1)>> \o SplitSlash(SubSeq(s, k + 1, Len(s)))

\* parseBRDate(br).getTime(), in days
parseBRDate(br) ==
    LET f == SplitSlash(br)
    IN  NewDate(NumberOf(f[3]), NumberOf(f[2]) - 1, NumberOf(f[1]))

\* `${dd}/${mm}/${yyyy}` of a day number, as gerarDatasProximosDoisMeses and
\* getTodayBR format it
FormatBR(z) ==
    LET c == CivilFromDays(z)
    IN  PadStart2(NumStr(c.d)) \o <<"/">> \o PadStart2(NumStr(c.m)) \o <<"/">> \o NumStr(c.y)

isNotSundayBR(dataBR) == GetDay(parseBRDate(dataBR)) # 0

isWeekdayBR(dataBR) ==
    LET day == GetDay(parseBRDate(dataBR))
    IN  day # 0 /\ day # 6

\* does raw hold a match of /\b\d{2}\/\d{2}\/\d{4}\b/ starting at i
MatchesDateAt(raw, i) ==
    /\ i >= 1
    /\ i + 9 <= Len(raw)
    /\ \A k \in {0, 1, 3, 4, 6, 7, 8, 9} : IsDigit(raw[i + k])
    /\ raw[i + 2] = "/"
    /\ raw[i + 5] = "/"
    /\ (i = 1 \/ ~IsWordChar(raw[i - 1]))
    /\ (i + 9 = Len(raw) \/ ~IsWordChar(raw[i + 10]))

\* extrairDataBR(texto): the first DD/MM/YYYY token of the text, or ''
extrairDataBR(texto) ==
    LET raw == Trim(texto)
        at  == {i \in 1..Len(raw) : MatchesDateAt(raw, i)}
    IN  IF at = {} THEN <<>>
        ELSE LET i == CHOOSE j \in at : \A k \in at : j <= k
             IN  SubSeq(raw, i, i + 9)

(***************************************************************************)
(* State                                                                   *)
(***************************************************************************)

VARIABLES
    \* retryOperation: position, maxRetries, attempt counter, the calls made
    \* so far (<<"op", outcome>>, <<"overlay", "-">>, <<"delay", "-">>) and
    \* how the call ended
    rPc, rMax, rAttempt, rCalls, rOut,
    \* esperarPautaEstabilizar: position, loop index i, last, count, and what
    \* the call has observed: the number of count samples taken, the two most
    \* recent samples (eRecent after ePrev), whether the most recent one was
    \* the loop's poll or the confirmation re-sample, whether every sample so
    \* far was the same, whether a count read failed, and how the call ended
    \* ("stable": the confirming re-sample matched; "exhausted": loop ran out)
    ePc, eI, eLast, eCount, eN, eRecent, ePrev, eKind, eAllEqual, eReadFailed, eOut,
    \* the count the loop's poll sampled in the iteration before the current
    \* one (-1 in the first iteration)
    ePrevPoll,
    \* the page's date cursor: the day shown (a day number), how the date
    \* label renders it, whether the previous / next controls exist, and
    \* what a click on them does
    sDay, sStyle, sPrev, sNext, sClicks,
    \* the page's date picker: what is wrong with it if anything, how its
    \* header and its day cells are rendered, and the month it shows
    \* (year * 12 + month index)
    cFault, cHeader, cMarkup, cView,
    \* date targeting: the variant of the program, position, entry point
    \* ("sel": selecionarDataComConfirmacao, "ir": irAteDataPorBotoes called
    \* on its own), the target dataBR, the attempt counter t, maxTentativas
    \* and the value returned ("thrown": a failure was raised instead)
    dVariant, dPc, dEntry, dAlvo, dT, dMaxT, dOut,
    \* date targeting: 1 in the first call of selecionarDataComConfirmacao, 2
    \* in the call repeated after it returned true
    dCall,
    \* navegarParaMes: loop index i and the value returned; the value of
    \* clicarDiaNoCalendario; dataVisivel as last read
    nI, nOkMes, kOkDia, dVisivel,
    \* main: the variant run, position, the store ("disabled", "unreachable",
    \* "up"), whether pool is non-null, the indices of the current vara and
    \* date, the outcome of the last date targeting, how the last
    \* stabilization wait ended and how the wait before the last extraction
    \* ended, rowsCsv.length, the records extracted, the calls of
    \* insertRowsMySql, what was thrown into main's catch, the rows handed to
    \* writeCsv and writeXlsx (-1: not called), whether the mail was sent and
    \* whether pool.end() ran in finally
    mVariant, mPc, mDb, mPool, mU, mD, mOk, mWait, mLastExtract, mRows, mExtracted,
    mInsertCalls, mCause, mCsvRows, mXlsxRows, mMailed, mPoolEnded,
    \* main: the calls of sendEmailWithAttachment and the rows of rowsCsv that
    \* insertRowsMySql has stored
    mMailCalls, mStored,
    \* main: the browser of chromium.launch: "none", "open" or "closed"
    mBrowser,
    \* main: rowsCsv, the rows pushed so far in order, each with the index of
    \* its vara in varasAlvo and of its data in datas
    rowsCsv,
    \* the store: whether insertRowsMySql is given a pool, the rows of table
    \* pauta_processos in insertion order, and for every key the last record
    \* whose statement succeeded with the number of such records (2: two or
    \* more), and the key columns each row had when it was inserted
    tPool, tRows, tLast, tCreated,
    \* gerarDatasProximosDoisMeses: the position in the function, hoje, current
    \* and fim as day numbers, and datas
    gPc, gHoje, gCurrent, gFim, gDatas,
    \* selecionarUnidade: the variant, the position in the function, the state
    \* of the ButtonConfirmar control, whether the wait for it saw it enabled,
    \* whether the click reached it and in which state, the outcome of the
    \* reset to today and how the call ended
    uVariant, uPc, uBtn, uSeen, uClicked, uBtnAtClick, uReset, uOut,
    \* extrairProcessosDaPauta: position, the ion-items of the page's list,
    \* what the count read answered, and the outcome
    xPc, xList, xRead, xOut,
    \* irAteDataPorBotoes: step, maxSteps, hasPrev, hasNext, the value it
    \* returned, and what the current call has done: the day shown when it was
    \* entered, its forward and backward clicks, whether every click moved the
    \* day shown by one in its direction, whether every click went toward
    \* the target
    iStep, iMaxSteps, iHasPrev, iHasNext, iOk, iStartDay, iFwd, iBack, iMoved, iToward

retryVars == <<rPc, rMax, rAttempt, rCalls, rOut>>

estVars == <<ePc, eI, eLast, eCount, eN, eRecent, ePrev, eKind, eAllEqual, eReadFailed, eOut,
             ePrevPoll>>

pageVars == <<sDay, sStyle, sPrev, sNext, sClicks, cFault, cHeader, cMarkup, cView>>

dateVars == <<dVariant, dPc, dEntry, dAlvo, dT, dMaxT, dOut, dCall>>

calVars == <<nI, nOkMes, kOkDia, dVisivel>>

irVars == <<iStep, iMaxSteps, iHasPrev, iHasNext, iOk, iStartDay, iFwd, iBack, iMoved, iToward>>

mainVars == <<mVariant, mPc, mDb, mPool, mU, mD, mOk, mWait, mLastExtract, mRows, mExtracted,
              mInsertCalls, mCause, mCsvRows, mXlsxRows, mMailed, mPoolEnded,
              mMailCalls, mStored, mBrowser, rowsCsv>>

storeVars == <<tPool, tRows, tLast, tCreated>>

extVars == <<xPc, xList, xRead, xOut>>

genVars == <<gPc, gHoje, gCurrent, gFim, gDatas>>

unitVars == <<uVariant, uPc, uBtn, uSeen, uClicked, uBtnAtClick, uReset, uOut>>

vars == <<retryVars, estVars, pageVars, dateVars, irVars, calVars, mainVars, storeVars, extVars,
          genVars, unitVars>>

\* a step of one function leaves the state of the others alone
RetryOnly == UNCHANGED <<estVars, pageVars, dateVars, irVars, calVars, mainVars, storeVars,
                         extVars, genVars, unitVars>>
EstabOnly == UNCHANGED <<retryVars, pageVars, dateVars, irVars, calVars, mainVars, storeVars,
                         extVars, genVars, unitVars>>
StepperOnly == UNCHANGED <<retryVars, estVars, calVars, mainVars, storeVars, extVars, genVars, unitVars,
                           dVariant,
                           cFault, cHeader, cMarkup, cView>>
CalendarOnly == UNCHANGED <<retryVars, estVars, irVars, mainVars, storeVars, extVars, genVars, unitVars,
                           dVariant,
                            sStyle, sPrev, sNext, sClicks, cFault, cHeader, cMarkup>>
MainOnly == UNCHANGED <<retryVars, estVars, pageVars, dateVars, irVars, calVars, storeVars,
                        extVars, genVars, unitVars>>
StoreOnly == UNCHANGED <<retryVars, estVars, pageVars, dateVars, irVars, calVars, mainVars,
                         extVars, genVars, unitVars>>
ExtractOnly == UNCHANGED <<retryVars, estVars, pageVars, dateVars, irVars, calVars, mainVars,
                           storeVars, genVars, unitVars>>
GenOnly == UNCHANGED <<retryVars, estVars, pageVars, dateVars, irVars, calVars, mainVars,
                       storeVars, extVars, unitVars>>
UnitOnly == UNCHANGED <<retryVars, estVars, pageVars, dateVars, irVars, calVars, mainVars,
                        storeVars, extVars, genVars>>

(***************************************************************************)
(* Bounds                                                                  *)
(***************************************************************************)

\* largest maxRetries argument tried besides the default
MaxRetriesArg == 3

\* largest number of entries the result list shows
MaxCount == 2

\* the days shown and targeted lie within Span days of 03/03/2026
Span == 2

\* largest maxSteps tried when irAteDataPorBotoes is called on its own
MaxStepsArg == 2

\* the date picker opens at most MonthSpan months away from March 2026
MonthSpan == 3

\* the number of varas listarVaras yields
MaxUnits == 2

\* the number of dates gerarDatasProximosDoisMeses yields
MaxDatas == 2

\* the most rows one call of insertRowsMySql is given
MaxBatch == 2

\* the runs (values of geradoEm) that write to the store
MaxRuns == 2

(***************************************************************************)
(* OVERLAY & RETRY                                                         *)
(***************************************************************************)

\* retryOperation's default maxRetries
DefaultMaxRetries == 5

\* what an operation can return, and the failures it can raise
OpResults == {"r1", "r2"}
OpErrors == {"e1", "e2"}

RethrowNowLate(attempt, maxRetries) == attempt > maxRetries

\* if (attempt === maxRetries) throw err
RethrowNow(attempt, maxRetries) == attempt = maxRetries

OpCalls(calls) == SelectSeq(calls, LAMBDA c : c[1] = "op")

RetryIdle ==
    /\ rPc = "idle"
    /\ rMax = 0
    /\ rAttempt = 0
    /\ rCalls = <<>>
    /\ rOut = [kind |-> "none", val |-> "-"]

\* retryOperation(page, operation, maxRetries, delayMs) is entered
RetryInit ==
    /\ rPc = "attempt"
    /\ rMax \in (0..MaxRetriesArg) \cup {DefaultMaxRetries}
    /\ rAttempt = 1
    /\ rCalls = <<>>
    /\ rOut = [kind |-> "none", val |-> "-"]

\* try { return await operation(); }
RetryReturn ==
    /\ RetryOnly
    /\ rPc = "attempt"
    /\ rAttempt <= rMax
    /\ \E v \in OpResults :
          /\ rCalls' = Append(rCalls, <<"op", v>>)
          /\ rOut' = [kind |-> "value", val |-> v]
    /\ rPc' = "returned"
    /\ UNCHANGED <<rMax, rAttempt>>

AfterCatchSkipsGuard(rethrow) == IF rethrow THEN "thrown" ELSE "delay"

\* what follows the test in catch: throw err, or await fecharOverlays(page)
AfterCatch(rethrow) == IF rethrow THEN "thrown" ELSE "overlay"

\* catch (err) { ...; if (attempt === maxRetries) throw err; ... }
RetryCatch ==
    /\ RetryOnly
    /\ rPc = "attempt"
    /\ rAttempt <= rMax
    /\ \E e \in OpErrors :
          /\ rCalls' = Append(rCalls, <<"op", e>>)
          /\ rPc' = AfterCatch(RethrowNow(rAttempt, rMax))
          /\ rOut' = IF RethrowNow(rAttempt, rMax) THEN [kind |-> "error", val |-> e] ELSE rOut
    /\ UNCHANGED <<rMax, rAttempt>>

\* await fecharOverlays(page)
RetryOverlay ==
    /\ RetryOnly
    /\ rPc = "overlay"
    /\ rCalls' = Append(rCalls, <<"overlay", "-">>)
    /\ rPc' = "delay"
    /\ UNCHANGED <<rMax, rAttempt, rOut>>

\* await page.waitForTimeout(delayMs); attempt++
RetryDelay ==
    /\ RetryOnly
    /\ rPc = "delay"
    /\ rCalls' = Append(rCalls, <<"delay", "-">>)
    /\ rAttempt' = rAttempt + 1
    /\ rPc' = "attempt"
    /\ UNCHANGED <<rMax, rOut>>

\* the for loop ends without a return or a throw: the call yields undefined
RetryFallThrough ==
    /\ RetryOnly
    /\ rPc = "attempt"
    /\ rAttempt > rMax
    /\ rPc' = "returned"
    /\ rOut' = [kind |-> "undefined", val |-> "-"]
    /\ UNCHANGED <<rMax, rAttempt, rCalls>>

RetryNext ==
    \/ RetryReturn
    \/ RetryCatch
    \/ RetryOverlay
    \/ RetryDelay
    \/ RetryFallThrough

(***************************************************************************)
(* ESPERAR PAUTA ESTABILIZAR                                               *)
(***************************************************************************)

\* for (let i = 0; i < 20; i++)
MaxPolls == 20

\* what the session answers to locator('ion-list ion-item').count()
\* (ok: the read succeeded and gave n)
CountReads == [ok : {TRUE}, n : 0..MaxCount] \cup {[ok |-> FALSE, n |-> 0]}

CountUncaught(r) == [thrown |-> ~r.ok, n |-> r.n]

\* count().catch(() => 0): the value the await yields, or the failure raised
CountOrZero(r) == [thrown |-> FALSE, n |-> IF r.ok THEN r.n ELSE 0]

StillMatchesGreater(count2, count) == count2 > count

\* if (count2 === count) return
StillMatches(count2, count) == count2 = count

SameAsLastAlways(count, last) == TRUE

\* if (count === last)
SameAsLast(count, last) == count = last

EstabIdle ==
    /\ ePc = "idle"
    /\ eI = 0
    /\ eLast = -1
    /\ eCount = -1
    /\ eN = 0
    /\ eRecent = -1
    /\ ePrev = -1
    /\ eKind = "none"
    /\ eAllEqual = TRUE
    /\ eReadFailed = FALSE
    /\ ePrevPoll = -1
    /\ eOut = "none"

\* esperarPautaEstabilizar(page) is entered
EstabEnter ==
    /\ ePc = "spinners"
    /\ eI = 0
    /\ eLast = -1
    /\ eCount = -1
    /\ eN = 0
    /\ eRecent = -1
    /\ ePrev = -1
    /\ eKind = "none"
    /\ eAllEqual = TRUE
    /\ eReadFailed = FALSE
    /\ ePrevPoll = -1
    /\ eOut = "none"

\* a sample c is taken: the bookkeeping of what the call has observed
Observed(r, c, kind) ==
    /\ eN' = eN + 1
    /\ ePrev' = eRecent
    /\ eRecent' = c
    /\ eKind' = kind
    /\ eAllEqual' = (eAllEqual /\ (eN = 0 \/ c = eRecent))
    /\ eReadFailed' = (eReadFailed \/ ~r.ok)

NextPollEarly(count) ==
    /\ eLast' = count
    /\ eI' = eI + 1
    /\ IF eI + 1 < MaxPolls - 1
          THEN ePc' = "poll" /\ eOut' = eOut
          ELSE ePc' = "done" /\ eOut' = "exhausted"

\* last = count; await page.waitForTimeout(250); i++; then the loop test
NextPoll(count) ==
    /\ eLast' = count
    /\ eI' = eI + 1
    /\ IF eI + 1 < MaxPolls
          THEN ePc' = "poll" /\ eOut' = eOut
          ELSE ePc' = "done" /\ eOut' = "exhausted"

\* the three loading indicators: each is probed (a failed probe counts as not
\* visible) and, when visible, waited on until hidden or until the wait
\* times out; neither changes what the call does next; let last = -1
EstabSpinners ==
    /\ EstabOnly
    /\ ePc = "spinners"
    /\ \E visible \in [1..3 -> BOOLEAN], hidden \in [1..3 -> BOOLEAN] :
          ePc' = "poll"
    /\ UNCHANGED <<eI, eLast, eCount, eN, eRecent, ePrev, eKind, eAllEqual, eReadFailed, eOut,
                   ePrevPoll>>

\* const count = await ...count().catch(() => 0); if (count === last) ...
EstabPoll ==
    /\ EstabOnly
    /\ ePc = "poll"
    /\ eI < MaxPolls
    /\ \E r \in CountReads :
          LET got == CountOrZero(r)
              count == got.n
          IN  IF got.thrown
                THEN /\ ePc' = "done"
                     /\ eOut' = "thrown"
                     /\ UNCHANGED <<eI, eLast, eCount, eN, eRecent, ePrev, eKind,
                                    eAllEqual, eReadFailed, ePrevPoll>>
                ELSE /\ Observed(r, count, "poll")
                     /\ eCount' = count
                     /\ ePrevPoll' = eCount
                     /\ IF SameAsLast(count, eLast)
                           THEN ePc' = "confirm" /\ UNCHANGED <<eI, eLast, eOut>>
                           ELSE NextPoll(count)

\* await page.waitForTimeout(600); const count2 = ...; if (count2 === count) return
EstabConfirm ==
    /\ EstabOnly
    /\ ePc = "confirm"
    /\ \E r \in CountReads :
          LET got == CountOrZero(r)
              count2 == got.n
          IN  IF got.thrown
                THEN /\ ePc' = "done"
                     /\ eOut' = "thrown"
                     /\ UNCHANGED <<eI, eLast, eCount, eN, eRecent, ePrev, eKind,
                                    eAllEqual, eReadFailed, ePrevPoll>>
                ELSE /\ Observed(r, count2, "confirm")
                     /\ UNCHANGED <<eCount, ePrevPoll>>
                     /\ IF StillMatches(count2, eCount)
                           THEN ePc' = "done" /\ eOut' = "stable" /\ UNCHANGED <<eI, eLast>>
                           ELSE NextPoll(eCount)

EstabNext ==
    \/ EstabSpinners
    \/ EstabPoll
    \/ EstabConfirm

(***************************************************************************)
(* SELECAO DE DATA (SEM CALENDARIO)                                        *)
(***************************************************************************)

\* 03/03/2026
BaseDay == NewDate(2026, 2, 3)

\* the days the page can show when date targeting starts
Window == (BaseDay - Span)..(BaseDay + Span)

\* the days targeted: the middle of the window and its last day
TargetDays == {BaseDay, BaseDay + Span}

WeekdayNames == << <<"d", "o", "m">>, <<"s", "e", "g">>, <<"t", "e", "r">>,
                   <<"q", "u", "a">>, <<"q", "u", "i">>, <<"s", "e", "x">>,
                   <<"s", "a", "b">> >>

\* how the page renders the date label: the bare date, the date after the
\* weekday's name, a text without a date, or no text at all
Styles == {"plain", "weekday", "text", "none"}

LabelOf(day, style) ==
    CASE style = "plain"   -> FormatBR(day)
      [] style = "weekday" -> WeekdayNames[GetDay(day) + 1] \o <<" ">> \o FormatBR(day)
      [] style = "text"    -> <<"h", "o", "j", "e">>
      [] style = "none"    -> <<>>

\* lerTextoDataExibida(page): the ion-button's text, else the text of
\* pautaButtonData, else ''; every failure is swallowed
lerTextoDataExibida == LabelOf(sDay, sStyle)

\* irAteDataPorBotoes(page, alvoBR, 220)
StepBudget == 220

\* selecionarDataComConfirmacao(page, dataBR, 2) in main and (.., 1) in
\* selecionarUnidade
Tentativas == {1, 2}

ContainsTargetLoose(raw, alvoBR) == raw # <<>>

\* raw && raw.includes(alvoBR)
ContainsTarget(raw, alvoBR) == raw # <<>> /\ Includes(raw, alvoBR)

ShownAlreadyNever(raw, alvoBR) == FALSE

\* if (raw && raw.includes(alvoBR)) return true, before the loop and at the
\* head of every step
ShownAlready(raw, alvoBR) == raw # <<>> /\ Includes(raw, alvoBR)

DirectionFlipped(raw, alvoBR, hasPrev) ==
    LET atualBR == extrairDataBR(raw)
    IN  IF atualBR # <<>> /\ hasPrev /\ parseBRDate(atualBR) < parseBRDate(alvoBR)
          THEN -1 ELSE 1

DirectionIgnoresPrev(raw, alvoBR, hasPrev) ==
    LET atualBR == extrairDataBR(raw)
    IN  IF atualBR # <<>> /\ parseBRDate(atualBR) > parseBRDate(alvoBR) THEN -1 ELSE 1

\* the direction of one step: -1 only when a date is read from the label, it
\* is later than the target and the previous control exists
Direction(raw, alvoBR, hasPrev) ==
    LET atualBR == extrairDataBR(raw)
    IN  IF atualBR # <<>> /\ hasPrev /\ parseBRDate(atualBR) > parseBRDate(alvoBR)
          THEN -1 ELSE 1

\* if (!hasNext && !hasPrev) return false
NoControls(hasPrev, hasNext) == ~hasNext /\ ~hasPrev

\* clickIonButtonByCss: true when the host element exists
Clicked(direction) == IF direction = -1 THEN sPrev ELSE sNext

\* the day shown after a click that landed
DayAfterClick(direction) == IF sClicks = "move" THEN sDay + direction ELSE sDay

Sign(n) == IF n > 0 THEN 1 ELSE IF n < 0 THEN -1 ELSE 0

Abs(n) == IF n < 0 THEN -n ELSE n

\* how the period button renders the month shown: "mar. de 2026", the year
\* alone, or nothing that can be read
HeaderStyles == {"abbr", "yearonly", "none"}

\* where the day cells carry their aria-label: on the td, on the inner
\* button, nowhere
Markups == {"td", "button", "none"}

\* what is wrong with the date picker: nothing; the date button is absent;
\* the month grid never appears; the month arrows are absent; the month
\* arrows do nothing; the day cells are disabled; a click on a day cell is
\* not applied
Faults == {"none", "nobutton", "noopen", "navabsent", "navdead", "disabled", "noapply"}

\* selecionarDataComConfirmacao(page, dataBR, 3), in main and selecionarUnidade
CalTentativas == 3

MonthKey(day) == CivilFromDays(day).y * 12 + (CivilFromDays(day).m - 1)

\* the page of the stepper variant when date targeting starts
StepperPage ==
    /\ sDay \in Window
    /\ sStyle \in Styles
    /\ sPrev \in BOOLEAN
    /\ sNext \in BOOLEAN
    /\ sClicks \in {"move", "dead"}
    /\ cFault = "none"
    /\ cHeader = "abbr"
    /\ cMarkup = "td"
    /\ cView = MonthKey(sDay)

\* the days the calendar variant's page can show when date targeting starts:
\* the 3rd of a month at most MonthSpan months from March 2026
CalendarDays == {NewDate(2026, 2 + k, 3) : k \in (-MonthSpan)..MonthSpan}

\* the page of the calendar variant when date targeting starts; at most one
\* thing is wrong with the date picker
CalendarPage ==
    /\ sDay \in CalendarDays
    /\ sStyle \in {"plain", "weekday", "none"}
    /\ sPrev = TRUE
    /\ sNext = TRUE
    /\ sClicks = "move"
    /\ cFault \in Faults
    /\ cHeader \in HeaderStyles
    /\ cMarkup \in Markups
    /\ cView = MonthKey(sDay)

PageIdle ==
    /\ sDay = BaseDay
    /\ sStyle = "plain"
    /\ sPrev = TRUE
    /\ sNext = TRUE
    /\ sClicks = "move"
    /\ cFault = "none"
    /\ cHeader = "abbr"
    /\ cMarkup = "td"
    /\ cView = MonthKey(BaseDay)

IrIdle ==
    /\ iStep = 0
    /\ iHasPrev = FALSE
    /\ iHasNext = FALSE
    /\ iOk = "none"
    /\ iStartDay = sDay
    /\ iFwd = 0
    /\ iBack = 0
    /\ iMoved = TRUE
    /\ iToward = TRUE

CalIdle ==
    /\ nI = 0
    /\ nOkMes = "none"
    /\ kOkDia = "none"
    /\ dVisivel = <<>>

DateIdle ==
    /\ dVariant = "stepper"
    /\ dPc = "idle"
    /\ dCall = 1
    /\ dEntry = "sel"
    /\ dAlvo = <<>>
    /\ dT = 0
    /\ dMaxT = 0
    /\ dOut = "none"
    /\ iMaxSteps = 0
    /\ IrIdle
    /\ CalIdle

\* selecionarDataComConfirmacao(page, dataBR, maxTentativas) is entered, or
\* irAteDataPorBotoes(page, alvoBR, maxSteps) is
DateEnter ==
    /\ \E alvo \in TargetDays : dAlvo = FormatBR(alvo)
    /\ dCall = 1
    /\ dOut = "none"
    /\ dT = 1
    /\ \/ /\ dVariant = "stepper"
          /\ StepperPage
          /\ \/ dEntry = "sel" /\ dPc = "sel" /\ dMaxT \in Tentativas /\ iMaxSteps = StepBudget
             \/ dEntry = "ir" /\ dPc = "ir" /\ dMaxT = 0 /\ iMaxSteps \in 1..MaxStepsArg
       \/ /\ dVariant = "calendar"
          /\ CalendarPage
          /\ dEntry = "sel"
          /\ dPc = "sel"
          /\ dMaxT = CalTentativas
          /\ iMaxSteps = 0
    /\ IrIdle
    /\ CalIdle

StepsLeftOneMore(step, maxSteps) == step <= maxSteps + 1

\* for (let step = 1; step <= maxSteps; step++)
StepsLeft(step, maxSteps) == step <= maxSteps

\* irAteDataPorBotoes returns v
IrReturn(v) ==
    /\ dPc' = "ret"
    /\ iOk' = v
    /\ UNCHANGED iStep

\* the loop of irAteDataPorBotoes goes on to the next step, or runs out
IrNextStep ==
    /\ iStep' = iStep + 1
    /\ IF StepsLeft(iStep + 1, iMaxSteps)
          THEN dPc' = "step" /\ iOk' = iOk
          ELSE dPc' = "ret" /\ iOk' = "false"

\* for (t = 1; t <= maxTentativas; t++) { rawAntes = ...; ok = await
\* irAteDataPorBotoes(page, dataBR, 220) ... } return false
SelTentativa ==
    /\ StepperOnly
    /\ dVariant = "stepper"
    /\ dPc = "sel"
    /\ IF dT <= dMaxT
          THEN dPc' = "ir" /\ dOut' = dOut
          ELSE dPc' = "done" /\ dOut' = "false"
    /\ UNCHANGED <<dCall, dEntry, dAlvo, dT, dMaxT, sDay, sStyle, sPrev, sNext, sClicks, irVars>>

\* irAteDataPorBotoes up to its loop: fecharOverlays, the existence of the
\* two controls, the first read of the label
IrEnter ==
    /\ StepperOnly
    /\ dVariant = "stepper"
    /\ dPc = "ir"
    /\ iHasPrev' = sPrev
    /\ iHasNext' = sNext
    /\ iStartDay' = sDay
    /\ iFwd' = 0
    /\ iBack' = 0
    /\ iMoved' = TRUE
    /\ iToward' = TRUE
    /\ IF NoControls(sPrev, sNext)
          THEN dPc' = "ret" /\ iOk' = "false" /\ iStep' = 0
          ELSE IF ShownAlready(lerTextoDataExibida, dAlvo)
                 THEN dPc' = "ret" /\ iOk' = "true" /\ iStep' = 0
                 ELSE /\ iStep' = 1
                      /\ IF StepsLeft(1, iMaxSteps)
                            THEN dPc' = "step" /\ iOk' = "none"
                            ELSE dPc' = "ret" /\ iOk' = "false"
    /\ UNCHANGED <<dCall, dEntry, dAlvo, dT, dMaxT, dOut, iMaxSteps, sDay, sStyle, sPrev, sNext, sClicks>>

\* one step of the loop: read, pick the direction, click, wait for the text
\* to change, read again
IrStep ==
    /\ StepperOnly
    /\ dVariant = "stepper"
    /\ dPc = "step"
    /\ LET raw       == lerTextoDataExibida
           direction == Direction(raw, dAlvo, iHasPrev)
           newDay    == DayAfterClick(direction)
       IN  IF ShownAlready(raw, dAlvo)
             THEN /\ IrReturn("true")
                  /\ UNCHANGED <<sDay, sStyle, sPrev, sNext, sClicks, iFwd, iBack, iMoved, iToward>>
             ELSE IF ~Clicked(direction)
                    THEN /\ IrNextStep
                         /\ UNCHANGED <<sDay, sStyle, sPrev, sNext, sClicks, iFwd, iBack, iMoved, iToward>>
                    ELSE /\ sDay' = newDay
                         /\ UNCHANGED <<sStyle, sPrev, sNext, sClicks>>
                         /\ iFwd' = IF direction = 1 THEN iFwd + 1 ELSE iFwd
                         /\ iBack' = IF direction = -1 THEN iBack + 1 ELSE iBack
                         /\ iMoved' = (iMoved /\ newDay = sDay + direction)
                         /\ iToward' = (iToward /\ direction = Sign(parseBRDate(dAlvo) - sDay))
                         /\ IF ContainsTarget(LabelOf(newDay, sStyle), dAlvo)
                               THEN IrReturn("true")
                               ELSE IrNextStep
    /\ UNCHANGED <<dCall, dEntry, dAlvo, dT, dMaxT, dOut, iMaxSteps, iHasPrev, iHasNext, iStartDay>>

\* back in selecionarDataComConfirmacao: rawDepois is read and logged;
\* if (ok) return true; otherwise fecharOverlays, a pause and the next attempt
SelAfter ==
    /\ StepperOnly
    /\ dVariant = "stepper"
    /\ dPc = "ret"
    /\ dEntry = "sel"
    /\ IF iOk = "true"
          THEN dPc' = "done" /\ dOut' = "true" /\ dT' = dT
          ELSE dPc' = "sel" /\ dOut' = dOut /\ dT' = dT + 1
    /\ UNCHANGED <<dCall, dEntry, dAlvo, dMaxT, sDay, sStyle, sPrev, sNext, sClicks, irVars>>

\* irAteDataPorBotoes called on its own hands its value to the caller
IrDone ==
    /\ StepperOnly
    /\ dVariant = "stepper"
    /\ dPc = "ret"
    /\ dEntry = "ir"
    /\ dPc' = "done"
    /\ dOut' = iOk
    /\ UNCHANGED <<dCall, dEntry, dAlvo, dT, dMaxT, sDay, sStyle, sPrev, sNext, sClicks, irVars>>

\* selecionarDataComConfirmacao has returned true and is called again with
\* the same target, the page being as the first call left it
DateAgain ==
    /\ dPc = "done"
    /\ dEntry = "sel"
    /\ dOut = "true"
    /\ dCall = 1
    /\ dCall' = 2
    /\ dPc' = "sel"
    /\ dT' = 1
    /\ dOut' = "none"
    /\ iStep' = 0
    /\ iHasPrev' = FALSE
    /\ iHasNext' = FALSE
    /\ iOk' = "none"
    /\ iStartDay' = sDay
    /\ iFwd' = 0
    /\ iBack' = 0
    /\ iMoved' = TRUE
    /\ iToward' = TRUE
    /\ nI' = 0
    /\ nOkMes' = "none"
    /\ kOkDia' = "none"
    /\ dVisivel' = <<>>
    /\ UNCHANGED <<retryVars, estVars, mainVars, storeVars, extVars, genVars, unitVars,
                   pageVars, dVariant, dEntry, dAlvo, dMaxT, iMaxSteps>>

StepperNext ==
    \/ SelTentativa
    \/ IrEnter
    \/ IrStep
    \/ SelAfter
    \/ IrDone

(***************************************************************************)
(* SELECAO DE DATA (calendar variant)                                      *)
(***************************************************************************)

\* monthMap: the keys of month index idx (0..11) are monthMap[idx + 1];
\* the letter c with a cedilla is written "c_"
monthMap == <<
    {<<"j", "a", "n">>,
     <<"j", "a", "n", "e", "i", "r", "o">>,
     <<"j", "a", "n", "u", "a", "r", "y">>},
    {<<"f", "e", "v">>,
     <<"f", "e", "v", "e", "r", "e", "i", "r", "o">>,
     <<"f", "e", "b">>,
     <<"f", "e", "b", "r", "u", "a", "r", "y">>},
    {<<"m", "a", "r">>,
     <<"m", "a", "r", "c_", "o">>,
     <<"m", "a", "r", "c", "o">>,
     <<"m", "a", "r", "c", "h">>},
    {<<"a", "b", "r">>,
     <<"a", "b", "r", "i", "l">>,
     <<"a", "p", "r">>,
     <<"a", "p", "r", "i", "l">>},
    {<<"m", "a", "i">>,
     <<"m", "a", "i", "o">>,
     <<"m", "a", "y">>},
    {<<"j", "u", "n">>,
     <<"j", "u", "n", "h", "o">>,
     <<"j", "u", "n", "e">>},
    {<<"j", "u", "l">>,
     <<"j", "u", "l", "h", "o">>,
     <<"j", "u", "l", "y">>},
    {<<"a", "g", "o">>,
     <<"a", "g", "o", "s", "t", "o">>,
     <<"a", "u", "g">>,
     <<"a", "u", "g", "u", "s", "t">>},
    {<<"s", "e", "t">>,
     <<"s", "e", "t", "e", "m", "b", "r", "o">>,
     <<"s", "e", "p">>,
     <<"s", "e", "p", "t", "e", "m", "b", "e", "r">>},
    {<<"o", "u", "t">>,
     <<"o", "u", "t", "u", "b", "r", "o">>,
     <<"o", "c", "t">>,
     <<"o", "c", "t", "o", "b", "e", "r">>},
    {<<"n", "o", "v">>,
     <<"n", "o", "v", "e", "m", "b", "r", "o">>,
     <<"n", "o", "v", "e", "m", "b", "e", "r">>},
    {<<"d", "e", "z">>,
     <<"d", "e", "z", "e", "m", "b", "r", "o">>,
     <<"d", "e", "c">>,
     <<"d", "e", "c", "e", "m", "b", "e", "r">>} >>

\* the abbreviations pt-BR puts in the header of the month view
MonthAbbr == << <<"j", "a", "n">>, <<"f", "e", "v">>, <<"m", "a", "r">>,
                <<"a", "b", "r">>, <<"m", "a", "i">>, <<"j", "u", "n">>,
                <<"j", "u", "l">>, <<"a", "g", "o">>, <<"s", "e", "t">>,
                <<"o", "u", "t">>, <<"n", "o", "v">>, <<"d", "e", "z">> >>

\* navegarParaMes(page, targetDate, 36)
MaxMonthSteps == 36

\* periodBtn.textContent(), trimmed and lower-cased ('' when the read fails)
HeaderOf(view, style) ==
    CASE style = "abbr" ->
            MonthAbbr[(view % 12) + 1] \o <<".", " ", "d", "e", " ">> \o NumStr(view \div 12)
      [] style = "yearonly" -> NumStr(view \div 12)
      [] style = "none" -> <<>>

\* getCalendarHeaderDateApprox(page): null, or the year and month index read
\* from the header
getCalendarHeaderDateApprox(header) ==
    LET years == {i \in 1..(Len(header) - 3) :
                    /\ SubSeq(header, i, i + 1) \in {<<"1", "9">>, <<"2", "0">>}
                    /\ IsDigit(header[i + 2])
                    /\ IsDigit(header[i + 3])}
        found == {idx \in 0..11 : \E k \in monthMap[idx + 1] : Includes(header, k)}
    IN  IF years = {} \/ found = {}
          THEN [null |-> TRUE, y |-> 0, m |-> 0]
          ELSE LET i == CHOOSE j \in years : \A k \in years : j <= k
               IN  [null |-> FALSE,
                    y |-> NumberOf(SubSeq(header, i, i + 3)),
                    m |-> CHOOSE idx \in found : \A k \in found : idx <= k]

\* sameMonthYear(a, b), b a day number
sameMonthYear(a, b) == a.y = CivilFromDays(b).y /\ a.m = CivilFromDays(b).m - 1

\* the number of days of the month shown
DaysInMonth(view) == NewDate(view \div 12, (view % 12) + 1, 1) - NewDate(view \div 12, view % 12, 1)

\* clicarDiaNoCalendario(page, targetDate) on the month shown: whether a cell
\* was found and clicked.  Tiers 1 and 2 take a labelled cell whose label
\* holds the target's year and whose text is the day; tier 3 takes any cell
\* that is not disabled and whose text is the day
clicarDiaNoCalendario(view, targetDay, markup, disabled) ==
    LET day    == CivilFromDays(targetDay).d
        year   == CivilFromDays(targetDay).y
        shown  == day <= DaysInMonth(view)
        byAria == markup \in {"td", "button"} /\ Includes(NumStr(view \div 12), NumStr(year))
    IN  shown /\ (byAria \/ ~disabled)

\* botaoData.waitFor({ state: 'visible' }) and waitForSelector('mat-calendar')
\* carry no catch: a missing button or grid raises a time-out
OpenThrows(fault) == fault \in {"nobutton", "noopen"}

ConfirmedLoose(dataVisivel, dataBR) == Includes(dataVisivel, dataBR)

\* if (dataVisivel === dataBR) return true
Confirmed(dataVisivel, dataBR) == dataVisivel = dataBR

\* selecionarDataComConfirmacao fails: the failure reaches its caller
DateThrown ==
    /\ dPc' = "done"
    /\ dOut' = "thrown"

\* for (let t = 1; t <= maxTentativas; t++) { ... } return false
CalTentativa ==
    /\ CalendarOnly
    /\ dVariant = "calendar"
    /\ dPc = "sel"
    /\ IF dT <= dMaxT
          THEN dPc' = "open" /\ dOut' = dOut
          ELSE dPc' = "done" /\ dOut' = "false"
    /\ UNCHANGED <<dCall, dEntry, dAlvo, dT, dMaxT, sDay, cView, calVars>>

\* selecionarDataNoCalendario up to navegarParaMes: fecharOverlays, wait for
\* the date button, click it, wait for the month grid
CalOpen ==
    /\ CalendarOnly
    /\ dVariant = "calendar"
    /\ dPc = "open"
    /\ IF OpenThrows(cFault)
          THEN DateThrown /\ UNCHANGED <<cView, nI>>
          ELSE dPc' = "nav" /\ dOut' = dOut /\ cView' = MonthKey(sDay) /\ nI' = 0
    /\ UNCHANGED <<dCall, dEntry, dAlvo, dT, dMaxT, sDay, nOkMes, kOkDia, dVisivel>>

BlindMoveBackward(fault) == IF fault \in {"navabsent", "navdead"} THEN 0 ELSE -1

\* await nextBtn.click({ force: true }).catch(() => {}): the months the grid
\* moves by; a missing or dead arrow leaves it where it is
BlindMove(fault) == IF fault \in {"navabsent", "navdead"} THEN 0 ELSE 1

AfterNavGivesUp(okMes) == IF okMes THEN "day" ELSE "sel"

\* const okMes = await navegarParaMes(...); if (!okMes) console.warn(...);
\* const okDia = await clicarDiaNoCalendario(...): the day click follows
\* either way
AfterNav(okMes) == "day"

MonthDirectionForward(tgtKey, curKey) == 1

\* if (tgtKey > curKey) await nextBtn.click(...); else await prevBtn.click(...)
MonthDirection(tgtKey, curKey) == IF tgtKey > curKey THEN 1 ELSE -1

\* one turn of navegarParaMes's loop, or its end
CalNavStep ==
    /\ CalendarOnly
    /\ dVariant = "calendar"
    /\ dPc = "nav"
    /\ LET approx == getCalendarHeaderDateApprox(HeaderOf(cView, cHeader))
           target == parseBRDate(dAlvo)
           curKey == approx.y * 12 + approx.m
           tgtKey == CivilFromDays(target).y * 12 + (CivilFromDays(target).m - 1)
           dir    == MonthDirection(tgtKey, curKey)
       IN  IF nI >= MaxMonthSteps
             THEN /\ dPc' = AfterNav(FALSE) /\ nOkMes' = "false"
                  /\ UNCHANGED <<dOut, cView, nI>>
             ELSE IF approx.null
                    THEN /\ cView' = cView + BlindMove(cFault)
                         /\ nI' = nI + 1
                         /\ UNCHANGED <<dPc, dOut, nOkMes>>
                    ELSE IF sameMonthYear(approx, target)
                           THEN /\ dPc' = AfterNav(TRUE) /\ nOkMes' = "true"
                                /\ UNCHANGED <<dOut, cView, nI>>
                           ELSE IF cFault = "navabsent"
                                  THEN DateThrown /\ UNCHANGED <<cView, nI, nOkMes>>
                                  ELSE /\ cView' = IF cFault = "navdead" THEN cView
                                                   ELSE cView + dir
                                       /\ nI' = nI + 1
                                       /\ UNCHANGED <<dPc, dOut, nOkMes>>
    /\ UNCHANGED <<dCall, dEntry, dAlvo, dT, dMaxT, sDay, kOkDia, dVisivel>>

\* clicarDiaNoCalendario, then a pause and fecharOverlays; return okDia
CalClickDay ==
    /\ CalendarOnly
    /\ dVariant = "calendar"
    /\ dPc = "day"
    /\ LET target == parseBRDate(dAlvo)
           okDia  == clicarDiaNoCalendario(cView, target, cMarkup, cFault = "disabled")
       IN  /\ kOkDia' = IF okDia THEN "true" ELSE "false"
           /\ sDay' = IF okDia /\ cFault \notin {"disabled", "noapply"}
                        THEN NewDate(cView \div 12, cView % 12, CivilFromDays(target).d)
                        ELSE sDay
    /\ dPc' = "conf"
    /\ UNCHANGED <<dCall, dEntry, dAlvo, dT, dMaxT, dOut, cView, nI, nOkMes, dVisivel>>

\* back in selecionarDataComConfirmacao: a failed click goes to the next
\* attempt; otherwise the date button's text is read and compared
CalConfirm ==
    /\ CalendarOnly
    /\ dVariant = "calendar"
    /\ dPc = "conf"
    /\ IF kOkDia = "false"
          THEN dPc' = "sel" /\ dT' = dT + 1 /\ UNCHANGED <<dOut, dVisivel>>
          ELSE /\ dVisivel' = Trim(LabelOf(sDay, sStyle))
               /\ IF Confirmed(dVisivel', dAlvo)
                     THEN dPc' = "done" /\ dOut' = "true" /\ dT' = dT
                     ELSE dPc' = "sel" /\ dOut' = dOut /\ dT' = dT + 1
    /\ UNCHANGED <<dCall, dEntry, dAlvo, dMaxT, sDay, cView, nI, nOkMes, kOkDia>>

CalendarNext ==
    \/ CalTentativa
    \/ CalOpen
    \/ CalNavStep
    \/ CalClickDay
    \/ CalConfirm

(***************************************************************************)
(* MAIN                                                                    *)
(***************************************************************************)

Variants == {"calendar", "stepper"}

\* the store as the run finds it: DB_ENABLED is not true; enabled, but
\* SELECT 1 or the schema statement fails; enabled and working
DbStates == {"disabled", "unreachable", "up"}

initDbKeepsPool(db) == db # "disabled"

\* initDbIfEnabled(): whether it returns a pool.  Not enabled: null; a
\* failure of SELECT 1 or of ensureSchema is caught, the pool is ended and
\* null is returned
initDbIfEnabled(db) == db = "up"

\* how esperarPautaEstabilizar ends: it returns after the confirming
\* re-sample or after its last iteration, and returns nothing either way
EstabOutcomes == {"stable", "exhausted"}

\* what selecionarDataComConfirmacao gives main: true, false or, in the
\* calendar variant, a failure raised by the date picker
DateOutcomes(variant, fault) ==
    IF variant = "calendar" /\ OpenThrows(fault) THEN {"thrown"} ELSE {"true", "false"}

MainIdle ==
    /\ mVariant = "stepper"
    /\ mPc = "idle"
    /\ mDb = "disabled"
    /\ mPool = FALSE
    /\ mU = 0
    /\ mD = 0
    /\ mOk = "none"
    /\ mWait = "none"
    /\ mLastExtract = "none"
    /\ mRows = 0
    /\ mExtracted = 0
    /\ mInsertCalls = 0
    /\ mCause = "none"
    /\ mCsvRows = -1
    /\ mXlsxRows = -1
    /\ mMailed = FALSE
    /\ mPoolEnded = FALSE
    /\ mMailCalls = 0
    /\ mStored = 0
    /\ mBrowser = "none"
    /\ rowsCsv = <<>>

\* main() is called; only the stepper variant has a store
MainEnter ==
    /\ mVariant \in Variants
    /\ mPc = "initdb"
    /\ mDb \in IF mVariant = "stepper" THEN DbStates ELSE {"disabled"}
    /\ mPool = FALSE
    /\ mU = 0
    /\ mD = 0
    /\ mOk = "none"
    /\ mWait = "none"
    /\ mLastExtract = "none"
    /\ mRows = 0
    /\ mExtracted = 0
    /\ mInsertCalls = 0
    /\ mCause = "none"
    /\ mCsvRows = -1
    /\ mXlsxRows = -1
    /\ mMailed = FALSE
    /\ mPoolEnded = FALSE
    /\ mMailCalls = 0
    /\ mStored = 0
    /\ mBrowser = "none"
    /\ rowsCsv = <<>>

AfterCsvMails(variant) == IF variant = "stepper" THEN "mail" ELSE "finally"

\* what follows writeCsv: writeXlsx in the stepper variant, the end of the
\* try in the calendar variant
AfterCsv(variant) == IF variant = "stepper" THEN "xlsx" ELSE "finally"

\* a failure is thrown inside main's try: control goes to catch
MainThrow(cause) ==
    /\ mPc' = "catch"
    /\ mCause' = cause

\* const pool = await initDbIfEnabled(); launch; newPage; rowsCsv = []
MainInitDb ==
    /\ MainOnly
    /\ mPc = "initdb"
    /\ mPool' = (mVariant = "stepper" /\ initDbIfEnabled(mDb))
    /\ mBrowser' = "open"
    /\ mPc' = "setup"
    /\ UNCHANGED <<mVariant, mDb, mU, mD, mOk, mWait, mLastExtract, mRows, mExtracted,
                   mInsertCalls, mCause, mCsvRows, mXlsxRows, mMailed, mPoolEnded,
                   mMailCalls, mStored, rowsCsv>>

\* abrirJTeSelecionarTRT2, abrirModuloPauta, listarVaras,
\* gerarDatasProximosDoisMeses; for (const vara of varasAlvo)
MainSetup ==
    /\ MainOnly
    /\ mPc = "setup"
    /\ \E ok \in BOOLEAN :
          IF ok THEN mPc' = "unit" /\ mU' = 1 /\ mCause' = mCause
                ELSE MainThrow("setup") /\ mU' = mU
    /\ UNCHANGED <<mVariant, mDb, mPool, mD, mOk, mWait, mLastExtract, mRows, mExtracted,
                   mInsertCalls, mCsvRows, mXlsxRows, mMailed, mPoolEnded,
                   mMailCalls, mStored, mBrowser, rowsCsv>>

AfterUnitSwallowed(ok) == "date"

\* where control goes after await selecionarUnidade(page, vara): into the
\* loop over datas, or, the rejection being uncaught in the loops, to catch
AfterUnit(ok) == IF ok THEN "date" ELSE "catch"

\* the head of the loop over varas and await selecionarUnidade(page, vara)
MainUnit ==
    /\ MainOnly
    /\ mPc = "unit"
    /\ IF mU > MaxUnits
          THEN mPc' = "csv" /\ UNCHANGED <<mD, mCause>>
          ELSE \E ok \in BOOLEAN :
                  /\ mPc' = AfterUnit(ok)
                  /\ mCause' = IF ok THEN mCause ELSE "unit"
                  /\ mD' = IF AfterUnit(ok) = "date" THEN 1 ELSE mD
    /\ UNCHANGED <<mVariant, mDb, mPool, mU, mOk, mWait, mLastExtract, mRows, mExtracted,
                   mInsertCalls, mCsvRows, mXlsxRows, mMailed, mPoolEnded,
                   mMailCalls, mStored, mBrowser, rowsCsv>>

\* the head of the loop over datas and
\* const ok = await selecionarDataComConfirmacao(...); if (!ok) continue
MainDate ==
    /\ MainOnly
    /\ mPc = "date"
    /\ IF mD > MaxDatas
          THEN mPc' = "unit" /\ mU' = mU + 1 /\ UNCHANGED <<mD, mOk, mCause>>
          ELSE \E fault \in Faults : \E ok \in DateOutcomes(mVariant, fault) :
                  /\ mOk' = ok
                  /\ mU' = mU
                  /\ CASE ok = "true"   -> mPc' = "estab" /\ UNCHANGED <<mD, mCause>>
                       [] ok = "false"  -> mPc' = "date" /\ mD' = mD + 1 /\ mCause' = mCause
                       [] ok = "thrown" -> MainThrow("date") /\ mD' = mD
    /\ UNCHANGED <<mVariant, mDb, mPool, mWait, mLastExtract, mRows, mExtracted,
                   mInsertCalls, mCsvRows, mXlsxRows, mMailed, mPoolEnded,
                   mMailCalls, mStored, mBrowser, rowsCsv>>

\* await esperarPautaEstabilizar(page)
MainEstab ==
    /\ MainOnly
    /\ mPc = "estab"
    /\ mWait' \in EstabOutcomes
    /\ mPc' = "extract"
    /\ UNCHANGED <<mVariant, mDb, mPool, mU, mD, mOk, mLastExtract, mRows, mExtracted,
                   mInsertCalls, mCause, mCsvRows, mXlsxRows, mMailed, mPoolEnded,
                   mMailCalls, mStored, mBrowser, rowsCsv>>

\* the lengths of the array page.evaluate returns to main: empty, or as many
\* entries as the list is taken to hold at most
ListSizes == {0, MaxCount}

PushAllFront(rows, vara, data, n) == [k \in 1..n |-> [vara |-> vara, data |-> data]] \o rows

\* for (const p of processos) rowsCsv.push({ geradoEm, vara, data: dataBR, ... })
PushAll(rows, vara, data, n) == rows \o [k \in 1..n |-> [vara |-> vara, data |-> data]]

\* const processos = await extrairProcessosDaPauta(page): [] when the count
\* is 0 or cannot be read, else what page.evaluate returns; each is pushed
\* on rowsCsv; if (pool && processos.length) insertRowsMySql follows
MainExtract ==
    /\ MainOnly
    /\ mPc = "extract"
    /\ mLastExtract' = mWait
    /\ \E r \in CountReads :
          IF CountOrZero(r).n = 0
            THEN /\ mPc' = "date"
                 /\ mD' = mD + 1
                 /\ UNCHANGED <<mRows, mExtracted, mCause, rowsCsv>>
            ELSE \E evaluated \in BOOLEAN, n \in ListSizes :
                    IF ~evaluated
                      THEN MainThrow("extract") /\ UNCHANGED <<mD, mRows, mExtracted, rowsCsv>>
                      ELSE /\ mExtracted' = mExtracted + n
                           /\ mRows' = mRows + n
                           /\ rowsCsv' = PushAll(rowsCsv, mU, mD, n)
                           /\ mCause' = mCause
                           /\ IF mPool /\ n > 0
                                 THEN mPc' = "insert" /\ mD' = mD
                                 ELSE mPc' = "date" /\ mD' = mD + 1
    /\ UNCHANGED <<mVariant, mDb, mPool, mU, mOk, mWait, mInsertCalls, mCsvRows, mXlsxRows,
                   mMailed, mPoolEnded,
                   mMailCalls, mStored, mBrowser>>

\* const r = await insertRowsMySql(pool, rowsChunk, 800): pool.query may
\* fail, and fails when the store is not there
MainInsert ==
    /\ MainOnly
    /\ mPc = "insert"
    /\ mInsertCalls' = mInsertCalls + 1
    /\ \E ok \in IF mDb = "up" THEN BOOLEAN ELSE {FALSE} :
          IF ok THEN mPc' = "date" /\ mD' = mD + 1 /\ mCause' = mCause /\ mStored' = mRows
                ELSE MainThrow("store") /\ mD' = mD /\ mStored' = mStored
    /\ UNCHANGED <<mVariant, mDb, mPool, mU, mOk, mWait, mLastExtract, mRows, mExtracted,
                   mCsvRows, mXlsxRows, mMailed, mPoolEnded,
                   mMailCalls, mBrowser, rowsCsv>>

\* after the loops: the output directory and writeCsv(csvPath, headers, rowsCsv)
MainWriteCsv ==
    /\ MainOnly
    /\ mPc = "csv"
    /\ mCsvRows' = mRows
    /\ mPc' = AfterCsv(mVariant)
    /\ UNCHANGED <<mVariant, mDb, mPool, mU, mD, mOk, mWait, mLastExtract, mRows, mExtracted,
                   mInsertCalls, mCause, mXlsxRows, mMailed, mPoolEnded,
                   mMailCalls, mStored, mBrowser, rowsCsv>>

\* await writeXlsx(xlsxPath, headers, rowsCsv)
MainWriteXlsx ==
    /\ MainOnly
    /\ mPc = "xlsx"
    /\ mXlsxRows' = mRows
    /\ mPc' = "mail"
    /\ UNCHANGED <<mVariant, mDb, mPool, mU, mD, mOk, mWait, mLastExtract, mRows, mExtracted,
                   mInsertCalls, mCause, mCsvRows, mMailed, mPoolEnded,
                   mMailCalls, mStored, mBrowser, rowsCsv>>

\* await sendEmailWithAttachment(...): throws on an incomplete SMTP
\* configuration or when sendMail fails
MainEmail ==
    /\ MainOnly
    /\ mPc = "mail"
    /\ mMailCalls' = mMailCalls + 1
    /\ \E ok \in BOOLEAN :
          IF ok THEN mPc' = "finally" /\ mMailed' = TRUE /\ mCause' = mCause
                ELSE MainThrow("mail") /\ mMailed' = mMailed
    /\ UNCHANGED <<mVariant, mDb, mPool, mU, mD, mOk, mWait, mLastExtract, mRows, mExtracted,
                   mInsertCalls, mCsvRows, mXlsxRows, mPoolEnded,
                   mStored, mBrowser, rowsCsv>>

\* catch (err) { console.error(...) }
MainCatch ==
    /\ MainOnly
    /\ mPc = "catch"
    /\ mPc' = "finally"
    /\ UNCHANGED <<mVariant, mDb, mPool, mU, mD, mOk, mWait, mLastExtract, mRows, mExtracted,
                   mInsertCalls, mCause, mCsvRows, mXlsxRows, mMailed, mPoolEnded,
                   mMailCalls, mStored, mBrowser, rowsCsv>>

\* finally { try { if (pool) await pool.end(); } catch { } }
MainFinally ==
    /\ MainOnly
    /\ mPc = "finally"
    /\ mPoolEnded' = mPool
    /\ mPc' = "end"
    /\ UNCHANGED <<mVariant, mDb, mPool, mU, mD, mOk, mWait, mLastExtract, mRows, mExtracted,
                   mInsertCalls, mCause, mCsvRows, mXlsxRows, mMailed,
                   mMailCalls, mStored, mBrowser, rowsCsv>>

\* main has reached await esperarPautaEstabilizar(page): the call is made
CellEstabCall ==
    /\ mPc = "estab"
    /\ ePc = "idle"
    /\ ePc' = "spinners"
    /\ eI' = 0
    /\ eLast' = -1
    /\ eCount' = -1
    /\ eN' = 0
    /\ eRecent' = -1
    /\ ePrev' = -1
    /\ eKind' = "none"
    /\ eAllEqual' = TRUE
    /\ eReadFailed' = FALSE
    /\ ePrevPoll' = -1
    /\ eOut' = "none"
    /\ UNCHANGED <<retryVars, pageVars, dateVars, irVars, calVars, mainVars, storeVars, extVars,
                   genVars, unitVars>>

\* esperarPautaEstabilizar returns to main, or what it throws reaches main
CellEstabReturn ==
    /\ mPc = "estab"
    /\ ePc = "done"
    /\ IF eOut = "thrown"
          THEN MainThrow("estab") /\ mWait' = mWait
          ELSE mPc' = "extract" /\ mWait' = eOut /\ mCause' = mCause
    /\ UNCHANGED <<retryVars, estVars, pageVars, dateVars, irVars, calVars, storeVars, extVars,
                   genVars, unitVars>>
    /\ UNCHANGED <<mVariant, mDb, mPool, mU, mD, mOk, mLastExtract, mRows, mExtracted,
                   mInsertCalls, mCsvRows, mXlsxRows, mMailed, mPoolEnded,
                   mMailCalls, mStored, mBrowser, rowsCsv>>

\* main at the first cell, its date targeting having returned true
CellEnter ==
    /\ mVariant \in Variants
    /\ mPc = "estab"
    /\ mDb \in IF mVariant = "stepper" THEN DbStates ELSE {"disabled"}
    /\ mPool = (mVariant = "stepper" /\ initDbIfEnabled(mDb))
    /\ mU = 1
    /\ mD = 1
    /\ mOk = "true"
    /\ mWait = "none"
    /\ mLastExtract = "none"
    /\ mRows = 0
    /\ mExtracted = 0
    /\ mInsertCalls = 0
    /\ mCause = "none"
    /\ mCsvRows = -1
    /\ mXlsxRows = -1
    /\ mMailed = FALSE
    /\ mPoolEnded = FALSE
    /\ mMailCalls = 0
    /\ mStored = 0
    /\ mBrowser = "open"
    /\ rowsCsv = <<>>

(***************************************************************************)
(* MYSQL                                                                   *)
(***************************************************************************)

\* brToIsoDateString(br)
brToIsoDateString(br) ==
    LET c == CivilFromDays(parseBRDate(br))
    IN  NumStr(c.y) \o <<"-">> \o PadStart2(NumStr(c.m)) \o <<"-">> \o PadStart2(NumStr(c.d))

\* insertRowsMySql(pool, rowsChunk, 800)
ChunkSize == 800

\* the cells whose records reach the store: the first date of one vara, the
\* last date of another
StoreKeys == {<<"vara1", FormatBR(BaseDay)>>, <<"vara2", FormatBR(BaseDay + Span)>>}

\* the records main hands to insertRowsMySql: run g extracted them, v tells
\* the descriptive texts apart
Record(g, vara, data, v) ==
    [geradoEm |-> g, vara |-> vara, data |-> data, numeroProcesso |-> "n1",
     sessao |-> <<"sessao", v>>, juiz |-> <<"juiz", v>>,
     reclamante |-> <<"reclamante", v>>, reclamada |-> <<"reclamada", v>>]

RecordsOf(g) == {Record(g, k[1], k[2], v) : k \in StoreKeys, v \in 1..2}

\* the rowsChunk of one call: every row carries the run's geradoEm
Batches ==
    UNION {UNION {[1..n -> RecordsOf(g)] : n \in 0..MaxBatch} : g \in 1..MaxRuns}

\* UNIQUE KEY uq_pauta (vara, dataISO, numeroProcesso) against the values of
\* a row to insert
SameKey(row, r) ==
    /\ row.vara = r.vara
    /\ row.dataISO = brToIsoDateString(r.data)
    /\ row.numeroProcesso = r.numeroProcesso

\* the row INSERT INTO pauta_processos (...) VALUES (?,?,?,?,?,?,?,?,?) adds
RowOf(r) ==
    [geradoEm |-> r.geradoEm, vara |-> r.vara, dataBR |-> r.data,
     dataISO |-> brToIsoDateString(r.data), numeroProcesso |-> r.numeroProcesso,
     sessao |-> r.sessao, juiz |-> r.juiz, reclamante |-> r.reclamante,
     reclamada |-> r.reclamada]

UpsertAlwaysInserts(table, r) == Append(table, RowOf(r))

\* one value tuple of the statement: a row with the same unique key is
\* updated in the five columns of ON DUPLICATE KEY UPDATE, else the row is
\* inserted
Upsert(table, r) ==
    IF \E i \in DOMAIN table : SameKey(table[i], r)
      THEN [i \in DOMAIN table |->
              IF SameKey(table[i], r)
                THEN [table[i] EXCEPT !.geradoEm = r.geradoEm, !.sessao = r.sessao,
                                      !.juiz = r.juiz, !.reclamante = r.reclamante,
                                      !.reclamada = r.reclamada]
                ELSE table[i]]
      ELSE Append(table, RowOf(r))

\* one statement: its value tuples in order
RECURSIVE UpsertAll(_, _)
UpsertAll(table, chunk) ==
    IF chunk = <<>> THEN table
    ELSE UpsertAll(Upsert(table, Head(chunk)), Tail(chunk))

\* for (let i = 0; i < rows.length; i += chunkSize): the table after the
\* statements of the chunks from (1-based) position i on
RECURSIVE InsertFrom(_, _, _, _)
InsertFrom(table, rows, i, chunkSize) ==
    IF i > Len(rows) THEN table
    ELSE LET last == IF i + chunkSize - 1 < Len(rows) THEN i + chunkSize - 1 ELSE Len(rows)
         IN  InsertFrom(UpsertAll(table, SubSeq(rows, i, last)), rows, i + chunkSize, chunkSize)

\* insertRowsMySql(pool, rows, chunkSize) when every statement succeeds
insertRowsMySql(pool, table, rows, chunkSize) ==
    IF ~pool \/ Len(rows) = 0 THEN table ELSE InsertFrom(table, rows, 1, chunkSize)

KeyOf(r) == <<r.vara, r.data>>

\* the bookkeeping of what was submitted: per key the last record and
\* whether it was the first for its key
RECURSIVE Submitted(_, _)
Submitted(last, rows) ==
    IF rows = <<>> THEN last
    ELSE LET r == Head(rows)
             n == IF last[KeyOf(r)].n = 0 THEN 1 ELSE 2
         IN  Submitted([last EXCEPT ![KeyOf(r)] = [n |-> n, r |-> r]], Tail(rows))

NoRecord == [n |-> 0, r |-> Record(0, "vara1", FormatBR(BaseDay), 0)]

\* the key columns of a row
KeyColumns(row) == <<row.vara, row.dataISO, row.numeroProcesso>>

\* the key columns of the rows a call added, after those already noted
Created(created, table) ==
    created \o [i \in 1..(Len(table) - Len(created)) |-> KeyColumns(table[Len(created) + i])]

StoreIdle ==
    /\ tPool = FALSE
    /\ tRows = <<>>
    /\ tLast = [k \in StoreKeys |-> NoRecord]
    /\ tCreated = <<>>

\* the table is empty after ensureSchema created it
StoreEnter ==
    /\ tPool \in BOOLEAN
    /\ tRows = <<>>
    /\ tLast = [k \in StoreKeys |-> NoRecord]
    /\ tCreated = <<>>

\* a call of insertRowsMySql whose statements succeed
InsertRowsOk ==
    /\ StoreOnly
    /\ \E rows \in Batches :
          /\ tRows' = insertRowsMySql(tPool, tRows, rows, ChunkSize)
          /\ tLast' = IF tPool THEN Submitted(tLast, rows) ELSE tLast
          /\ tCreated' = Created(tCreated, tRows')
    /\ UNCHANGED tPool

\* a call of insertRowsMySql whose first statement fails: pool.query rejects
\* and the table is as before
InsertRowsFail ==
    /\ StoreOnly
    /\ tPool
    /\ \E n \in 1..MaxBatch : UNCHANGED <<tRows, tLast, tCreated>>
    /\ UNCHANGED tPool

StoreNext ==
    \/ InsertRowsOk
    \/ InsertRowsFail

(***************************************************************************)
(* EXTRAIR DADOS DA PAUTA                                                  *)
(***************************************************************************)

\* .replace(/\u00a0/g, ' '); "_" stands for U+00A0
NbspToSpace(s) == [i \in DOMAIN s |-> IF s[i] = "_" THEN " " ELSE s[i]]

\* getText(sel): '' when the element is missing (here: no text), else its
\* text with no-break spaces replaced, trimmed
getText(raw) == Trim(NbspToSpace(raw))

\* the ion-items: the texts of .sessao, .palavrasRight,
\* .JT-item-texto-negrito and of the .item-desc-small.item-text-wrap elements
Items ==
    [sessao : {<<>>, <<"h">>}, palavrasRight : {<<>>, <<"s">>},
     negrito : {<<>>, <<"_", "n", " ">>},
     descs : {<<>>, << <<"j">> >>, << <<>>, <<"r">> >>, << <<"j">>, <<"r">>, <<"d">> >>}]

\* [hora, status].filter(Boolean).join(' - ')
JoinSessao(hora, status) ==
    IF hora # <<>> /\ status # <<>> THEN hora \o <<" ", "-", " ">> \o status
    ELSE IF hora # <<>> THEN hora
    ELSE status

\* partes[k] || '' (k counted from 1)
PartOr(partes, k) == IF k <= Len(partes) THEN partes[k] ELSE <<>>

\* the record the mapping function makes of one ion-item
MapItem(item) ==
    LET texts  == [k \in DOMAIN item.descs |-> getText(item.descs[k])]
        partes == SelectSeq(texts, LAMBDA t : t # <<>>)
    IN  [numeroProcesso |-> getText(item.negrito),
         sessao |-> JoinSessao(getText(item.sessao), getText(item.palavrasRight)),
         juiz |-> PartOr(partes, 1),
         reclamante |-> PartOr(partes, 2),
         reclamada |-> PartOr(partes, 3)]

MapItemsSkipUnnamed(list) ==
    LET named == SelectSeq(list, LAMBDA item : getText(item.negrito) # <<>>)
    IN  [k \in DOMAIN named |-> MapItem(named[k])]

\* Array.from(items).map(...)
MapItems(list) == [k \in DOMAIN list |-> MapItem(list[k])]

ExtractIdle ==
    /\ xPc = "idle"
    /\ xList = <<>>
    /\ xRead = [ok |-> TRUE, n |-> 0]
    /\ xOut = [kind |-> "none", val |-> <<>>]

\* extrairProcessosDaPauta(page) is entered: the list holds up to MaxCount
\* items
ExtractEnter ==
    /\ xPc = "count"
    /\ xList \in UNION {[1..n -> Items] : n \in 0..MaxCount}
    /\ xRead = [ok |-> TRUE, n |-> 0]
    /\ xOut = [kind |-> "none", val |-> <<>>]

\* what the list can do between the count and the evaluation: nothing, lose
\* its items, gain an item
ListChanges == {"same", "emptied", "grown"}

ListAfter(list, change) ==
    CASE change = "same" -> list
      [] change = "emptied" -> <<>>
      [] change = "grown" -> IF 0 < Len(list) /\ Len(list) < MaxCount
                               THEN Append(list, list[1]) ELSE list

\* const count = await ...count().catch(() => 0); if (!count) return [].
\* The read gives the number of items or fails
ExtractCount ==
    /\ ExtractOnly
    /\ xPc = "count"
    /\ \E r \in {[ok |-> TRUE, n |-> Len(xList)], [ok |-> FALSE, n |-> 0]} :
          /\ xRead' = r
          /\ IF CountOrZero(r).n = 0
                THEN xPc' = "done" /\ xOut' = [kind |-> "returned", val |-> <<>>]
                ELSE xPc' = "evaluate" /\ xOut' = xOut
    /\ UNCHANGED xList

\* const processos = await page.evaluate(...); return processos.  The
\* evaluation maps the items the list holds by then, or fails
ExtractEvaluate ==
    /\ ExtractOnly
    /\ xPc = "evaluate"
    /\ xPc' = "done"
    /\ \E change \in ListChanges, evaluated \in BOOLEAN :
          /\ xList' = ListAfter(xList, change)
          /\ xOut' = IF evaluated THEN [kind |-> "returned", val |-> MapItems(xList')]
                                  ELSE [kind |-> "thrown", val |-> <<>>]
    /\ UNCHANGED xRead

\* the vara and the dataBR of the cell main is at when it runs on its own
CellVara == "vara1"

CellData == FormatBR(BaseDay)

\* const rowsChunk = processos.map((p) => ({ geradoEm, vara, data: dataBR, ... }))
RowsChunk(processos, geradoEm, vara, dataBR) ==
    [k \in DOMAIN processos |->
        [geradoEm |-> geradoEm, vara |-> vara, data |-> dataBR,
         numeroProcesso |-> processos[k].numeroProcesso, sessao |-> processos[k].sessao,
         juiz |-> processos[k].juiz, reclamante |-> processos[k].reclamante,
         reclamada |-> processos[k].reclamada]]

\* main after extrairProcessosDaPauta returned processos: every record is
\* pushed on rowsCsv; if (pool && processos.length) insertRowsMySql(pool,
\* rowsChunk, 800) is awaited, whose statement succeeds or is rejected
CellAccumulateStore ==
    /\ xPc = "done"
    /\ xOut.kind = "returned"
    /\ LET processos == xOut.val
           rowsChunk == RowsChunk(processos, 1, CellVara, CellData)
       IN  /\ rowsCsv' = PushAll(rowsCsv, 1, 1, Len(processos))
           /\ mRows' = mRows + Len(processos)
           /\ mExtracted' = mExtracted + Len(processos)
           /\ IF tPool /\ Len(processos) > 0
                 THEN \E ok \in BOOLEAN :
                        IF ok
                          THEN /\ xPc' = "stored"
                               /\ mInsertCalls' = mInsertCalls + 1
                               /\ tRows' = insertRowsMySql(tPool, tRows, rowsChunk, ChunkSize)
                               /\ tCreated' = Created(tCreated, tRows')
                          ELSE /\ xPc' = "rejected"
                               /\ mInsertCalls' = mInsertCalls + 1
                               /\ UNCHANGED <<tRows, tCreated>>
                 ELSE /\ xPc' = "kept"
                      /\ UNCHANGED <<mInsertCalls, tRows, tCreated>>
    /\ UNCHANGED <<retryVars, estVars, pageVars, dateVars, irVars, calVars, genVars, unitVars,
                   xList, xRead, xOut, tPool, tLast>>
    /\ UNCHANGED <<mVariant, mPc, mDb, mPool, mU, mD, mOk, mWait, mLastExtract, mCause,
                   mCsvRows, mXlsxRows, mMailed, mPoolEnded, mMailCalls, mStored, mBrowser>>

ExtractNext ==
    \/ ExtractCount
    \/ ExtractEvaluate

(***************************************************************************)
(* gerarDatasProximosDoisMeses: the dates main visits                      *)
(***************************************************************************)

\* the days new Date() is taken from: 28/12/2026, a Monday, and the days
\* after it, so that the month index and the day of fim overflow
GenSpan == 3

GenBase == NewDate(2026, 11, 28)

Todays == GenBase..(GenBase + GenSpan)

\* current = new Date(hoje); current.setDate(current.getDate() + 7)
FirstCurrent(hoje) == hoje + 7

\* fim = new Date(hoje); fim.setMonth(fim.getMonth() + 2);
\* fim.setDate(fim.getDate() + 10). hoje, current and fim carry the same time
\* of day, so they compare as their days do.
Fim(hoje) ==
    LET c == CivilFromDays(hoje)
    IN  NewDate(c.y, (c.m - 1) + 2, c.d) + 10

GenIdle ==
    /\ gPc = "idle"
    /\ gHoje = 0
    /\ gCurrent = 0
    /\ gFim = 0
    /\ gDatas = <<>>

GenEnter ==
    /\ gPc = "call"
    /\ gHoje \in Todays
    /\ gCurrent = 0
    /\ gFim = 0
    /\ gDatas = <<>>

\* the statements before the loop
GenStart ==
    /\ GenOnly
    /\ gPc = "call"
    /\ gCurrent' = FirstCurrent(gHoje)
    /\ gFim' = Fim(gHoje)
    /\ gDatas' = <<>>
    /\ gPc' = "loop"
    /\ UNCHANGED gHoje

\* one pass of while (current <= fim)
GenLoop ==
    /\ GenOnly
    /\ gPc = "loop"
    /\ gCurrent <= gFim
    /\ LET dataBR == FormatBR(gCurrent)
       IN  gDatas' = IF isWeekdayBR(dataBR) THEN Append(gDatas, dataBR) ELSE gDatas
    /\ gCurrent' = gCurrent + 1
    /\ UNCHANGED <<gPc, gHoje, gFim>>

\* return datas
GenReturn ==
    /\ GenOnly
    /\ gPc = "loop"
    /\ gCurrent > gFim
    /\ gPc' = "done"
    /\ UNCHANGED <<gHoje, gCurrent, gFim, gDatas>>

GenNext ==
    \/ GenStart
    \/ GenLoop
    \/ GenReturn

(***************************************************************************)
(* selecionarUnidade: the cascade of selections and the confirm control    *)
(***************************************************************************)

\* the states of ButtonConfirmar: enabled, disabled by the disabled
\* attribute, disabled by aria-disabled="true" only, or not in the page
ButtonStates == {"enabled", "disabledAttr", "ariaDisabled", "absent"}

\* (el) => !el.hasAttribute('disabled') && el.getAttribute('aria-disabled') !== 'true'
SeenEnabled(btn) == btn = "enabled"

\* confirmar.click({ delay: 80 }).catch(() => {}): whether the click reaches
\* the control.  The library waits for the control to be there and enabled
\* and gives up with a time-out, which the catch swallows; a control with the
\* disabled attribute is never clicked, and whether aria-disabled="true"
\* alone holds the click back depends on the library's version.
ClickOutcomes(btn) ==
    CASE btn = "enabled"      -> {"clicked", "notclicked"}
      [] btn = "ariaDisabled" -> {"clicked", "notclicked"}
      [] OTHER                -> {"notclicked"}

UnitIdle ==
    /\ uVariant = "stepper"
    /\ uPc = "idle"
    /\ uBtn = "enabled"
    /\ uSeen = FALSE
    /\ uClicked = "none"
    /\ uBtnAtClick = "none"
    /\ uReset = "none"
    /\ uOut = "none"

\* selecionarUnidade(page, varaLabel) is entered
UnitEnter ==
    /\ uVariant \in Variants
    /\ uPc = "open"
    /\ uBtn \in ButtonStates
    /\ uSeen = FALSE
    /\ uClicked = "none"
    /\ uBtnAtClick = "none"
    /\ uReset = "none"
    /\ uOut = "none"

\* selecionarUnidade fails: the failure reaches its caller
UnitThrown ==
    /\ uPc' = "done"
    /\ uOut' = "thrown"

\* the page enables the confirm control while selecionarUnidade runs
UnitButtonEnables ==
    /\ UnitOnly
    /\ uPc \notin {"idle", "done"}
    /\ uBtn \in {"disabledAttr", "ariaDisabled"}
    /\ uBtn' = "enabled"
    /\ UNCHANGED <<uVariant, uPc, uSeen, uClicked, uBtnAtClick, uReset, uOut>>

\* the steps before the confirm control, in order: the unit button and the
\* dialog's title, the selection of the type, of the municipality, the wait
\* for the unit select to be enabled, the selection of the unit
CascadeSteps == <<"open", "tipo", "municipio", "orgaoEnabled", "orgao">>

\* the position after cascade step k
AfterCascade(k, variant) ==
    IF k < Len(CascadeSteps) THEN CascadeSteps[k + 1]
    ELSE IF variant = "stepper" THEN "visible" ELSE "click"

\* one step of the cascade; none of its waits and clicks has a catch
UnitSelect ==
    /\ UnitOnly
    /\ \E k \in DOMAIN CascadeSteps :
          /\ uPc = CascadeSteps[k]
          /\ \E ok \in BOOLEAN :
                IF ok THEN uPc' = AfterCascade(k, uVariant) /\ uOut' = uOut
                      ELSE UnitThrown
    /\ UNCHANGED <<uVariant, uBtn, uSeen, uClicked, uBtnAtClick, uReset>>

\* await confirmar.waitFor({ state: 'visible', timeout: 20000 })
UnitVisible ==
    /\ UnitOnly
    /\ uPc = "visible"
    /\ IF uBtn = "absent" THEN UnitThrown ELSE uPc' = "enabled" /\ uOut' = uOut
    /\ UNCHANGED <<uVariant, uBtn, uSeen, uClicked, uBtnAtClick, uReset>>

\* await page.waitForFunction(...).catch(() => {}): resolves when the control
\* is enabled, and its time-out is swallowed
UnitWaitEnabled ==
    /\ UnitOnly
    /\ uPc = "enabled"
    /\ uSeen' = SeenEnabled(uBtn)
    /\ uPc' = "click"
    /\ UNCHANGED <<uVariant, uBtn, uClicked, uBtnAtClick, uReset, uOut>>

\* await confirmar.click({ delay: 80 }).catch(() => {})
UnitClick ==
    /\ UnitOnly
    /\ uPc = "click"
    /\ \E c \in ClickOutcomes(uBtn) :
          /\ uClicked' = c
          /\ uBtnAtClick' = IF c = "clicked" THEN uBtn ELSE uBtnAtClick
    /\ uPc' = "load"
    /\ UNCHANGED <<uVariant, uBtn, uSeen, uReset, uOut>>

\* await page.waitForLoadState('networkidle'), with a catch in the stepper
\* variant only, and the pause
UnitLoad ==
    /\ UnitOnly
    /\ uPc = "load"
    /\ \E ok \in IF uVariant = "stepper" THEN {TRUE} ELSE BOOLEAN :
          IF ok THEN uPc' = "reset" /\ uOut' = uOut ELSE UnitThrown
    /\ UNCHANGED <<uVariant, uBtn, uSeen, uClicked, uBtnAtClick, uReset>>

\* const ok = await selecionarDataComConfirmacao(page, todayBR, ...); both
\* results are logged and the function returns
UnitReset ==
    /\ UnitOnly
    /\ uPc = "reset"
    /\ \E fault \in Faults : \E ok \in DateOutcomes(uVariant, fault) :
          /\ uReset' = ok
          /\ IF ok = "thrown" THEN UnitThrown ELSE uPc' = "done" /\ uOut' = "returned"
    /\ UNCHANGED <<uVariant, uBtn, uSeen, uClicked, uBtnAtClick>>

UnitNext ==
    \/ UnitButtonEnables
    \/ UnitSelect
    \/ UnitVisible
    \/ UnitWaitEnabled
    \/ UnitClick
    \/ UnitLoad
    \/ UnitReset

(***************************************************************************)
(* Specifications                                                          *)
(***************************************************************************)

InitRetry == RetryInit /\ EstabIdle /\ PageIdle /\ DateIdle /\ MainIdle /\ StoreIdle /\ ExtractIdle
    /\ GenIdle
    /\ UnitIdle

SpecRetry == InitRetry /\ [][RetryNext]_vars

InitEstab == EstabEnter /\ RetryIdle /\ PageIdle /\ DateIdle /\ MainIdle /\ StoreIdle /\ ExtractIdle
    /\ GenIdle
    /\ UnitIdle

SpecEstab == InitEstab /\ [][EstabNext]_vars

\* the event loop runs every continuation that is ready
SpecEstabLive == SpecEstab /\ WF_vars(EstabNext)

InitDate == DateEnter /\ RetryIdle /\ EstabIdle /\ MainIdle /\ StoreIdle /\ ExtractIdle
    /\ GenIdle
    /\ UnitIdle

DateNext ==
    \/ SelTentativa
    \/ IrEnter
    \/ IrStep
    \/ SelAfter
    \/ IrDone
    \/ CalTentativa
    \/ CalOpen
    \/ CalNavStep
    \/ CalClickDay
    \/ CalConfirm
    \/ DateAgain

SpecDate == InitDate /\ [][DateNext]_vars

\* one cell of main's loops from the stabilization wait to the extraction,
\* esperarPautaEstabilizar running step by step
InitCell == CellEnter /\ EstabIdle /\ RetryIdle /\ PageIdle /\ DateIdle /\ StoreIdle /\ ExtractIdle
    /\ GenIdle
    /\ UnitIdle

CellNext ==
    \/ CellEstabCall
    \/ EstabSpinners
    \/ EstabPoll
    \/ EstabConfirm
    \/ CellEstabReturn
    \/ MainExtract

SpecCell == InitCell /\ [][CellNext]_vars

\* calls of insertRowsMySql on the table, over several runs
InitStore == StoreEnter /\ EstabIdle /\ RetryIdle /\ PageIdle /\ DateIdle /\ MainIdle /\ ExtractIdle
    /\ GenIdle
    /\ UnitIdle

SpecStore == InitStore /\ [][StoreNext]_vars

\* one call of extrairProcessosDaPauta
InitExtract ==
    ExtractEnter /\ EstabIdle /\ RetryIdle /\ PageIdle /\ DateIdle /\ MainIdle /\ StoreIdle
    /\ GenIdle
    /\ UnitIdle

SpecExtract == InitExtract /\ [][ExtractNext]_vars

\* one cell of the stepper variant's main on an empty table: extraction,
\* then the push on rowsCsv and the call of insertRowsMySql
InitCellStore ==
    ExtractEnter /\ StoreEnter /\ EstabIdle /\ RetryIdle /\ PageIdle /\ DateIdle /\ MainIdle
    /\ GenIdle
    /\ UnitIdle

CellStoreNext ==
    \/ ExtractCount
    \/ ExtractEvaluate
    \/ CellAccumulateStore

SpecCellStore == InitCellStore /\ [][CellStoreNext]_vars

InitGen ==
    GenEnter /\ EstabIdle /\ RetryIdle /\ PageIdle /\ DateIdle /\ MainIdle /\ StoreIdle
    /\ ExtractIdle
    /\ UnitIdle

InitUnit ==
    UnitEnter /\ EstabIdle /\ RetryIdle /\ PageIdle /\ DateIdle /\ MainIdle /\ StoreIdle
    /\ ExtractIdle
    /\ GenIdle

SpecUnit == InitUnit /\ [][UnitNext]_vars

SpecGen == InitGen /\ [][GenNext]_vars

\* a whole run of main; the calls into the session are taken by their
\* outcomes
Init == MainEnter /\ EstabIdle /\ RetryIdle /\ PageIdle /\ DateIdle /\ StoreIdle /\ ExtractIdle
    /\ GenIdle
    /\ UnitIdle

Next ==
    \/ MainInitDb
    \/ MainSetup
    \/ MainUnit
    \/ MainDate
    \/ MainEstab
    \/ MainExtract
    \/ MainInsert
    \/ MainWriteCsv
    \/ MainWriteXlsx
    \/ MainEmail
    \/ MainCatch
    \/ MainFinally

Spec == Init /\ [][Next]_vars

(***************************************************************************)
(* Properties                                                              *)
(***************************************************************************)

\* C5: retryOperation with maxRetries >= 1 calls the operation at most
\* maxRetries times; it returns the value of the first attempt that succeeds,
\* every earlier attempt having failed and none following; when all
\* maxRetries attempts fail it throws the failure of the last attempt.
C5_RetryBoundedLastFailure ==
    rMax >= 1 =>
        LET ops == OpCalls(rCalls)
        IN  /\ Len(ops) <= rMax
            /\ \A i \in 1..(Len(ops) - 1) : ops[i][2] \in OpErrors
            /\ rPc = "returned" =>
                  /\ rOut.kind = "value"
                  /\ ops # <<>>
                  /\ ops[Len(ops)][2] \in OpResults
                  /\ rOut.val = ops[Len(ops)][2]
                  /\ rCalls[Len(rCalls)] = ops[Len(ops)]
            /\ rPc = "thrown" =>
                  /\ rOut.kind = "error"
                  /\ Len(ops) = rMax
                  /\ rOut.val = ops[rMax][2]
            /\ (Len(ops) = rMax /\ ops[rMax][2] \in OpErrors) => rPc = "thrown"

\* all three attempts of a maxRetries = 3 call failed, with different
\* failures first and last, and the call threw
C5_Witness ==
    /\ rMax = 3
    /\ rPc = "thrown"
    /\ Len(OpCalls(rCalls)) = 3
    /\ OpCalls(rCalls)[1][2] # OpCalls(rCalls)[3][2]

\* C7: when the poll of an iteration and the re-sample taken one confirmation
\* interval later show the same count, esperarPautaEstabilizar returns right
\* there, inside the loop (i < 20); a list whose count never changes makes it
\* return in the second iteration, after three samples.
C7_StableReturnsBeforeCeiling ==
    /\ (eKind = "confirm" /\ eRecent = ePrev) =>
          (ePc = "done" /\ eOut = "stable" /\ eI < MaxPolls)
    /\ (eAllEqual /\ eN >= 3) =>
          (ePc = "done" /\ eOut = "stable" /\ eN = 3 /\ eI = 1)

\* the confirming re-sample matched in the last iteration the loop allows
C7_Witness ==
    /\ eKind = "confirm"
    /\ eRecent = ePrev
    /\ eOut = "stable"
    /\ eI = MaxPolls - 1
    /\ ~eAllEqual

\* C8: esperarPautaEstabilizar returns, whatever the samples are: it never
\* runs more than 20 iterations or takes more than 40 samples, a failed count
\* read is not raised, and the call always ends.
C8_AlwaysTerminates ==
    /\ [](eI <= MaxPolls /\ eN <= 2 * MaxPolls /\ eOut # "thrown")
    /\ <>(ePc = "done")

\* the loop ran out after 20 iterations during which a count read failed
C8_Witness ==
    /\ ePc = "done"
    /\ eOut = "exhausted"
    /\ eI = MaxPolls
    /\ eReadFailed
    /\ eN >= MaxPolls

\* the hypothesis of C6 for the current call of irAteDataPorBotoes: the label
\* shows a date, every click so far moved it by one day in its direction, and
\* the target lies within maxSteps days of the day shown at entry
C6_Hypothesis ==
    /\ dPc \in {"step", "ret"}
    /\ extrairDataBR(LabelOf(iStartDay, sStyle)) # <<>>
    /\ iMoved
    /\ Abs(parseBRDate(dAlvo) - iStartDay) <= iMaxSteps

\* the control that points from the day shown at entry to the target exists
\* (either one when the target is the day shown)
C6_ControlTowardTarget ==
    /\ parseBRDate(dAlvo) < iStartDay => sPrev
    /\ parseBRDate(dAlvo) > iStartDay => sNext
    /\ parseBRDate(dAlvo) = iStartDay => (sPrev \/ sNext)

\* every click so far went toward the target and, once the call has returned,
\* it returned true after exactly d clicks with the label containing the target
C6_Conclusion ==
    LET d == Abs(parseBRDate(dAlvo) - iStartDay)
    IN  /\ iToward
        /\ iFwd + iBack <= d
        /\ dPc = "ret" =>
              /\ iOk = "true"
              /\ iFwd + iBack = d
              /\ Includes(lerTextoDataExibida, dAlvo)

\* C6 as stated: in irAteDataPorBotoes, if every directional click changes
\* the displayed date by exactly one day in its direction and the target lies
\* d <= maxSteps days from the displayed date, the call returns true after
\* exactly d clicks, all toward the target, the label containing the target.
C6_OriginalConvergence == C6_Hypothesis => C6_Conclusion

\* C6 as amended: the same, provided the control that points toward the
\* target exists (previous for an earlier target, next for a later one,
\* either of the two when the target is already shown).
C6_StepperConvergence == (C6_Hypothesis /\ C6_ControlTowardTarget) => C6_Conclusion

\* label "03/03/2026", target "05/03/2026": success after two forward clicks
C6_Witness ==
    /\ dPc = "ret"
    /\ iOk = "true"
    /\ LabelOf(iStartDay, sStyle) = <<"0", "3", "/", "0", "3", "/", "2", "0", "2", "6">>
    /\ dAlvo = <<"0", "5", "/", "0", "3", "/", "2", "0", "2", "6">>
    /\ iFwd = 2
    /\ iBack = 0
    /\ iMoved

\* selecionarDataComConfirmacao has returned true
DateSucceeded ==
    /\ dPc = "done"
    /\ dEntry = "sel"
    /\ dOut = "true"

\* the date text read from the display now: lerTextoDataExibida in the
\* stepper variant, the trimmed text of the date button in the calendar
\* variant
DisplayedDate ==
    IF dVariant = "stepper" THEN lerTextoDataExibida ELSE Trim(LabelOf(sDay, sStyle))

\* C1 as stated: whenever selecionarDataComConfirmacao returns true, in
\* either variant, the displayed date re-read at that moment equals the
\* target's DD/MM/YYYY string.
C1_OriginalSuccessEqualsTarget == DateSucceeded => DisplayedDate = dAlvo

\* C1 as amended: whenever selecionarDataComConfirmacao returns true, the
\* displayed date re-read at that moment contains the target's DD/MM/YYYY
\* string, and in the calendar variant it equals it.
C1_SuccessShowsTarget ==
    DateSucceeded =>
        /\ Includes(DisplayedDate, dAlvo)
        /\ dVariant = "calendar" => DisplayedDate = dAlvo /\ dVisivel = dAlvo

\* the stepper variant reports success for 05/03/2026 after stepping forward
\* while the label reads "qui 05/03/2026"
C1_Witness ==
    /\ DateSucceeded
    /\ dVariant = "stepper"
    /\ iFwd >= 1
    /\ dAlvo = <<"0", "5", "/", "0", "3", "/", "2", "0", "2", "6">>
    /\ DisplayedDate = <<"q", "u", "i", " ">> \o dAlvo

\* the picker trigger is entirely absent: the date button in the calendar
\* variant, both the previous and the next control in the stepper variant
TriggerAbsent ==
    \/ dVariant = "calendar" /\ cFault = "nobutton"
    \/ dVariant = "stepper" /\ ~sPrev /\ ~sNext

\* C9 as stated: in both variants, when the picker trigger is entirely
\* absent, date targeting reports failure by returning false and does not
\* throw.
C9_AbsentTriggerReturnsFalse ==
    (dPc = "done" /\ dEntry = "sel" /\ TriggerAbsent) => dOut = "false"

\* C2 as stated: in main's loops, in both variants, a failure of date
\* targeting for a cell (false returned, or a failure raised during the
\* attempt) only skips that cell; it never ends the unit's dates or the run.
C2_DateFailureSkipsCell == mOk \in {"false", "thrown"} => mCause # "date"

\* C3 as stated: when a failure has ended the run with at least one record
\* accumulated, the records accumulated were written to the file sink.
C3_FailureKeepsRecords ==
    (mPc = "end" /\ mCause # "none" /\ mRows >= 1) => mCsvRows = mRows

\* C4 as stated: extrairProcessosDaPauta runs for a cell only after
\* esperarPautaEstabilizar has certified the cell's list as quiescent by the
\* confirming equal re-sample; never after a wait that ended uncertified.
C4_OriginalExtractOnlyCertified ==
    mLastExtract # "none" => (mLastExtract = "stable" /\ eOut = "stable")

\* C4 as amended: extrairProcessosDaPauta runs for a cell only after
\* esperarPautaEstabilizar has returned for that cell, either certified (its
\* last two samples, the second a confirming re-sample, are equal) or
\* uncertified after all of its MaxPolls iterations.
C4_ExtractAfterWaitReturned ==
    mLastExtract # "none" =>
        /\ ePc = "done"
        /\ mLastExtract = eOut
        /\ \/ eOut = "stable" /\ eKind = "confirm" /\ eRecent = ePrev /\ eI < MaxPolls
           \/ eOut = "exhausted" /\ eI = MaxPolls

\* the wait ran out of iterations and the extraction that followed yielded a
\* record
C4_Witness ==
    /\ mLastExtract = "exhausted"
    /\ eOut = "exhausted"
    /\ eI = MaxPolls
    /\ mExtracted >= 1

\* the loop over the varas has ended and writeCsv has been reached and left
CellsCompleted == mU > MaxUnits /\ mPc \notin {"unit", "csv"}

\* C10: when the store is enabled but unreachable at startup,
\* initDbIfEnabled yields no pool; from then on insertRowsMySql is never
\* called, no store failure reaches main's catch, and a run whose cells
\* complete hands writeCsv (and writeXlsx, once called) one row per
\* extracted record.
C10_UnreachableStoreAbsent ==
    (mVariant = "stepper" /\ mDb = "unreachable") =>
        /\ ~mPool
        /\ mInsertCalls = 0
        /\ mCause # "store"
        /\ CellsCompleted => (mCsvRows = mExtracted /\ mXlsxRows \in {-1, mExtracted})

\* a run with an unreachable store ends after extracting two records and
\* writing both
C10_Witness ==
    /\ mVariant = "stepper"
    /\ mDb = "unreachable"
    /\ mPc = "end"
    /\ mCause = "none"
    /\ mExtracted = 2
    /\ mCsvRows = 2
    /\ mMailed

\* C11 as stated: when insertRowsMySql fails for a cell after a successful
\* startup check, the store is degraded to a no-op and extraction of the
\* remaining cells continues; a store failure never ends the run.
C11_StoreFailureNeverAborts ==
    (mVariant = "stepper" /\ mDb = "up" /\ mInsertCalls >= 1) => mCause # "store"

\* the rows of the table that hold key k
RowsOfKey(k) == {i \in DOMAIN tRows : tRows[i].vara = k[1] /\ tRows[i].dataBR = k[2]}

\* C12: for every key (vara, dataISO, numeroProcesso), once a record with
\* that key went through insertRowsMySql the table holds exactly one row for
\* it, whose sessao, juiz, reclamante, reclamada and geradoEm are those of
\* the most recent submission (none before); and every row still has the
\* key columns it was inserted with.
C12_UpsertIdempotent ==
    /\ \A k \in StoreKeys :
          IF tLast[k].n = 0
            THEN RowsOfKey(k) = {}
            ELSE \E i \in DOMAIN tRows :
                    /\ RowsOfKey(k) = {i}
                    /\ SameKey(tRows[i], tLast[k].r)
                    /\ tRows[i].geradoEm = tLast[k].r.geradoEm
                    /\ tRows[i].sessao = tLast[k].r.sessao
                    /\ tRows[i].juiz = tLast[k].r.juiz
                    /\ tRows[i].reclamante = tLast[k].r.reclamante
                    /\ tRows[i].reclamada = tLast[k].r.reclamada
    /\ Len(tCreated) = Len(tRows)
    /\ \A i \in DOMAIN tRows : KeyColumns(tRows[i]) = tCreated[i]

\* a key was submitted twice, by two runs with different texts, and the one
\* row it has carries the second run's
C12_Witness ==
    LET k == <<"vara1", FormatBR(BaseDay)>>
    IN  /\ tLast[k].n = 2
        /\ tLast[k].r.geradoEm = 2
        /\ Len(tRows) = 2
        /\ \E i \in DOMAIN tRows :
              /\ SameKey(tRows[i], tLast[k].r)
              /\ tRows[i].geradoEm = 2
              /\ tRows[i].dataISO = <<"2", "0", "2", "6", "-", "0", "3", "-", "0", "3">>

\* C13: extrairProcessosDaPauta returns exactly one record per item of the
\* list it observed: when the evaluation ran, one record for each item the
\* list held then, in order, an item without identifier or description
\* texts giving a record with empty strings; when the count it read was 0 (a
\* failed read counts as 0) it observed no item and returns no record.
C13_OneRecordPerObservedItem ==
    (xPc = "done" /\ xOut.kind = "returned") =>
        IF CountOrZero(xRead).n = 0
          THEN xOut.val = <<>> /\ (xRead.ok => xList = <<>>)
          ELSE /\ Len(xOut.val) = Len(xList)
               /\ \A k \in DOMAIN xList :
                     /\ xOut.val[k].numeroProcesso = getText(xList[k].negrito)
                     /\ xOut.val[k].numeroProcesso \in {<<>>, <<"n">>}
                     /\ Len(xList[k].descs) = 0 =>
                           /\ xOut.val[k].juiz = <<>>
                           /\ xOut.val[k].reclamante = <<>>
                           /\ xOut.val[k].reclamada = <<>>

\* two items, the first without identifier and without description texts,
\* give two records, the first with empty strings
C13_Witness ==
    /\ xPc = "done"
    /\ xOut.kind = "returned"
    /\ Len(xList) = 2
    /\ Len(xOut.val) = 2
    /\ xList[1].negrito = <<>>
    /\ xList[1].descs = <<>>
    /\ xOut.val[1].numeroProcesso = <<>>
    /\ xOut.val[1].juiz = <<>>
    /\ xOut.val[2].numeroProcesso = <<"n">>

\* C14: in the stepper variant's main, sendEmailWithAttachment is called at
\* most once per run and only after writeCsv and writeXlsx were given all
\* the rows; when it fails, both files and the stored rows are as they were:
\* every accumulated row is in the files, and in the store when there is one.
C14_NotifyOnceAfterSinks ==
    /\ mMailCalls <= 1
    /\ mMailCalls = 1 =>
          /\ mVariant = "stepper"
          /\ mCsvRows = mRows
          /\ mXlsxRows = mRows
          /\ mPool => mStored = mRows
    /\ mCause = "mail" => (mMailCalls = 1 /\ ~mMailed)

\* the notification failed after two rows were stored and written
C14_Witness ==
    /\ mPc = "end"
    /\ mCause = "mail"
    /\ mPool
    /\ mStored = 2
    /\ mCsvRows = 2
    /\ mXlsxRows = 2

\* C15: whenever main has ended, normally or through its catch, the browser
\* session was released and the store pool, if one was opened, was ended.
C15_ResourcesReleasedAtEnd ==
    mPc = "end" => (mBrowser = "closed" /\ (mPool => mPoolEnded))

\* C16: once selecionarUnidade has failed for a unit, main is in its catch,
\* its finally or at its end, and from then on no step moves to another unit
\* or date, targets a date, waits for a listing or extracts one.
C16_UnitFailureEndsRun ==
    /\ [](mCause = "unit" => mPc \in {"catch", "finally", "end"})
    /\ [][mCause = "unit" =>
             UNCHANGED <<mU, mD, mOk, mWait, mLastExtract, mExtracted, mRows>>]_vars

\* the first unit's selection failed and the run ended with the second unit
\* and every date untouched
C16_Witness ==
    /\ mPc = "end"
    /\ mCause = "unit"
    /\ mU = 1
    /\ mU < MaxUnits
    /\ mOk = "none"
    /\ mExtracted = 0

\* C17 as stated: every date returned by gerarDatasProximosDoisMeses is
\* strictly after today + 7 days, strictly before today + 2 months + 10 days,
\* and a Monday to Friday.
C17_OriginalStrictlyBetween ==
    gPc = "done" =>
        \A i \in DOMAIN gDatas :
            LET z == parseBRDate(gDatas[i])
            IN  /\ FirstCurrent(gHoje) < z
                /\ z < Fim(gHoje)
                /\ GetDay(z) \in 1..5

\* C17: every date returned by gerarDatasProximosDoisMeses is from today + 7
\* days to today + 2 months + 10 days, both ends included, and a Monday to
\* Friday; each end is returned when it is a Monday to Friday.
C17_BetweenInclusive ==
    gPc = "done" =>
        /\ \A i \in DOMAIN gDatas :
              LET z == parseBRDate(gDatas[i])
              IN  /\ FirstCurrent(gHoje) <= z
                  /\ z <= Fim(gHoje)
                  /\ GetDay(z) \in 1..5
        /\ \A z \in {FirstCurrent(gHoje), Fim(gHoje)} :
              GetDay(z) \in 1..5 => \E i \in DOMAIN gDatas : gDatas[i] = FormatBR(z)

\* the function returned, and its first date is today + 7 days
C17_Witness ==
    /\ gPc = "done"
    /\ gDatas # <<>>
    /\ parseBRDate(gDatas[1]) = gHoje + 7

\* C18: in the calls retryOperation makes, fecharOverlays comes directly
\* after a failed attempt and the delay directly after fecharOverlays; an
\* attempt other than the first comes directly after a failed attempt, one
\* fecharOverlays and one delay, in this order; nothing follows a successful
\* attempt, and nothing follows the failed attempt number maxRetries.
C18_GuardOnceBetweenAttempts ==
    /\ \A i \in DOMAIN rCalls :
          /\ rCalls[i][1] = "overlay" =>
                (i > 1 /\ rCalls[i - 1][1] = "op" /\ rCalls[i - 1][2] \in OpErrors)
          /\ rCalls[i][1] = "delay" => (i > 1 /\ rCalls[i - 1][1] = "overlay")
          /\ (rCalls[i][1] = "op" /\ i > 1) =>
                /\ i > 3
                /\ rCalls[i - 1][1] = "delay"
                /\ rCalls[i - 2][1] = "overlay"
                /\ rCalls[i - 3][1] = "op"
          /\ (rCalls[i][1] = "op" /\ rCalls[i][2] \in OpResults) => i = Len(rCalls)
    /\ Len(rCalls) <= (IF rMax >= 1 THEN 3 * rMax - 2 ELSE 0)
    /\ rPc = "thrown" => rCalls[Len(rCalls)][1] = "op"

\* two attempts failed, each followed by fecharOverlays and the delay, and the
\* third succeeded
C18_Witness ==
    /\ rPc = "returned"
    /\ rOut.kind = "value"
    /\ Len(rCalls) = 7
    /\ rCalls[5] = <<"overlay", "-">>
    /\ rCalls[6] = <<"delay", "-">>

\* C19: when the label shown at the call of irAteDataPorBotoes contains the
\* target string, the call returns true and no directional control was
\* clicked.
C19_ShownTargetReturnsTrue ==
    (dVariant = "stepper" /\ dPc = "ret" /\ Includes(LabelOf(iStartDay, sStyle), dAlvo)) =>
        (iOk = "true" /\ iFwd + iBack = 0)

\* in a step of irAteDataPorBotoes: a date is read from the label and it is
\* later than the target
C20_ShownLater ==
    LET atualBR == extrairDataBR(lerTextoDataExibida)
    IN  atualBR # <<>> /\ parseBRDate(atualBR) > parseBRDate(dAlvo)

\* a step of irAteDataPorBotoes clicks the previous control, the next control
C20_ClicksBack == dVariant = "stepper" /\ dPc = "step" /\ iBack' = iBack + 1

C20_ClicksForward == dVariant = "stepper" /\ dPc = "step" /\ iFwd' = iFwd + 1

\* a step of irAteDataPorBotoes that goes past the test of the label
C20_Chooses ==
    dVariant = "stepper" /\ dPc = "step" /\ ~ContainsTarget(lerTextoDataExibida, dAlvo)

\* C20 as stated: every step of irAteDataPorBotoes clicks the backward
\* control if a date is read from the label and the target is earlier, and
\* the forward control otherwise; the forward control is never clicked while
\* the date shown is later than the target.
C20_OriginalDirectionRule ==
    [][/\ C20_ClicksBack => C20_ShownLater
       /\ C20_ClicksForward => ~C20_ShownLater
       /\ (C20_Chooses /\ C20_ShownLater /\ sPrev) => C20_ClicksBack
       /\ (C20_Chooses /\ ~C20_ShownLater /\ sNext) => C20_ClicksForward]_vars

\* C20: every step of irAteDataPorBotoes clicks the backward control if a
\* date is read from the label, the target is earlier and the backward control
\* was found when the call began, and the forward control otherwise; the
\* forward control is never clicked while the date shown is later than the
\* target and the backward control was found.
C20_DirectionRule ==
    [][/\ C20_ClicksBack => (C20_ShownLater /\ iHasPrev)
       /\ C20_ClicksForward => ~(C20_ShownLater /\ iHasPrev)
       /\ (C20_Chooses /\ C20_ShownLater /\ iHasPrev /\ sPrev) => C20_ClicksBack
       /\ (C20_Chooses /\ ~(C20_ShownLater /\ iHasPrev) /\ sNext) => C20_ClicksForward]_vars

\* the target, two days before the day shown, was reached by two clicks of
\* the backward control
C20_Witness ==
    /\ dVariant = "stepper"
    /\ dPc = "ret"
    /\ iOk = "true"
    /\ iBack = 2
    /\ iFwd = 0
    /\ iStartDay = parseBRDate(dAlvo) + 2

\* the steps selecionarDataComConfirmacao or irAteDataPorBotoes of the
\* stepper variant can still take, counted from above: each pass of the outer
\* loop is worth the test of t, the entry of irAteDataPorBotoes, maxSteps
\* steps and the return
C21_Rank ==
    LET pass == iMaxSteps + 3
        left == IF dEntry = "sel" THEN (dMaxT - dT) * pass + 1 ELSE 0
    IN  CASE dPc = "sel"  -> left + pass
          [] dPc = "ir"   -> left + pass - 1
          [] dPc = "step" -> left + 2 + (iMaxSteps - iStep)
          [] dPc = "ret"  -> left + 1
          [] OTHER        -> 0

\* C21: in the stepper variant a call of irAteDataPorBotoes clicks at most
\* maxSteps times; it is never in its loop with the target in the label, it
\* returns true only with the target in the label, and it returns false,
\* both controls not being absent, only with the budget used up and the
\* target not in the label; selecionarDataComConfirmacao enters it at most
\* maxTentativas times; control is always at a statement of the two functions
\* or past their return, and every step brings the return nearer.
C21_BoundedTargeting ==
    /\ [](dVariant = "stepper" =>
            /\ iFwd + iBack <= iMaxSteps
            /\ dPc = "step" => ~ContainsTarget(lerTextoDataExibida, dAlvo)
            /\ (dPc = "ret" /\ iOk = "true") => ContainsTarget(lerTextoDataExibida, dAlvo)
            /\ (dPc = "ret" /\ iOk = "false" /\ ~NoControls(iHasPrev, iHasNext)) =>
                  (iStep = iMaxSteps + 1 /\ ~ContainsTarget(lerTextoDataExibida, dAlvo))
            /\ (dEntry = "sel" /\ dPc \in {"ir", "step", "ret"}) => dT <= dMaxT
            /\ dPc \in {"sel", "ir", "step", "ret", "done"}
            /\ dEntry \in {"sel", "ir"}
            /\ C21_Rank >= 0)
    /\ [][(dVariant = "stepper" /\ dCall' = dCall) => C21_Rank' < C21_Rank]_vars

\* both calls of a maxTentativas = 2 targeting used their 220 clicks and
\* selecionarDataComConfirmacao returned false
C21_Witness ==
    /\ dVariant = "stepper"
    /\ dEntry = "sel"
    /\ dPc = "done"
    /\ dOut = "false"
    /\ dMaxT = 2
    /\ dT = 3
    /\ iFwd + iBack = StepBudget

\* the hypothesis of C22: the header of the month grid is read with its year
\* and month, and a click on a month arrow moves the grid by one month
C22_Hypothesis ==
    /\ dVariant = "calendar"
    /\ dPc = "nav"
    /\ ~getCalendarHeaderDateApprox(HeaderOf(cView, cHeader)).null
    /\ cFault \notin {"navabsent", "navdead"}

\* C22: under that hypothesis every click of navegarParaMes brings the month
\* shown one month nearer to the target's month, so that it never passes it,
\* and with the target's month shown navegarParaMes clicks no more and
\* returns true.
C22_NavigationNeverOvershoots ==
    [][C22_Hypothesis =>
          LET tgtKey == MonthKey(parseBRDate(dAlvo))
          IN  /\ nI' = nI + 1 =>
                    /\ Abs(tgtKey - cView') = Abs(tgtKey - cView) - 1
                    /\ Sign(tgtKey - cView') \in {0, Sign(tgtKey - cView)}
              /\ cView' # cView => nI' = nI + 1
              /\ cView = tgtKey => (nI' = nI /\ dPc' = "day" /\ nOkMes' = "true")]_vars

\* the grid opened three months after the target's month and navegarParaMes
\* reached it with three clicks
C22_Witness ==
    /\ dVariant = "calendar"
    /\ dPc = "day"
    /\ nOkMes = "true"
    /\ nI = 3
    /\ cHeader = "abbr"
    /\ cFault = "none"
    /\ MonthKey(sDay) = MonthKey(parseBRDate(dAlvo)) + 3
    /\ cView = MonthKey(parseBRDate(dAlvo))

\* C23: navegarParaMes makes at most 36 steps; it returns true only with
\* the target's year and month read from the header, and false only after
\* its 36 steps; whatever it returns, selecionarDataNoCalendario goes on to
\* clicarDiaNoCalendario and returns what that click returned.
C23_NavigationStopsThenClicksDay ==
    /\ [](dVariant = "calendar" => nI <= MaxMonthSteps)
    /\ [][(dVariant = "calendar" /\ dPc = "nav" /\ dPc' # "nav" /\ dOut' # "thrown") =>
             /\ dPc' = "day"
             /\ nOkMes' \in {"true", "false"}
             /\ nOkMes' = "true" =>
                   sameMonthYear(getCalendarHeaderDateApprox(HeaderOf(cView, cHeader)),
                                 parseBRDate(dAlvo))
             /\ nOkMes' = "false" => nI = MaxMonthSteps]_vars
    /\ [][(dVariant = "calendar" /\ dPc = "day") =>
             /\ dPc' = "conf"
             /\ kOkDia' = IF clicarDiaNoCalendario(cView, parseBRDate(dAlvo), cMarkup,
                                                   cFault = "disabled")
                            THEN "true" ELSE "false"]_vars

\* the header never showed a month: after 36 blind steps navegarParaMes
\* returned false, and the day click that followed found a cell
C23_Witness ==
    /\ dVariant = "calendar"
    /\ dPc = "conf"
    /\ nOkMes = "false"
    /\ nI = MaxMonthSteps
    /\ kOkDia = "true"

\* C24: a turn of navegarParaMes that cannot read the year or the month from
\* the header, with steps left, clicks the next arrow (the grid stays or moves
\* one month forward), counts one step of the 36 and goes on with the loop
\* without failing or returning; navegarParaMes returns false only with all
\* 36 steps counted.
C24_UnreadableHeaderStepsForward ==
    [][(dVariant = "calendar" /\ dPc = "nav") =>
          /\ (getCalendarHeaderDateApprox(HeaderOf(cView, cHeader)).null
                /\ nI < MaxMonthSteps) =>
                /\ nI' = nI + 1
                /\ cView' \in {cView, cView + 1}
                /\ cFault = "none" => cView' = cView + 1
                /\ dPc' = "nav"
                /\ dOut' = dOut
                /\ nOkMes' = nOkMes
          /\ (dPc' = "day" /\ nOkMes' = "false") => nI = MaxMonthSteps]_vars

\* a header without a month: 36 blind steps took the grid 36 months forward
\* and navegarParaMes returned false
C24_Witness ==
    /\ dVariant = "calendar"
    /\ dPc = "day"
    /\ cHeader = "yearonly"
    /\ nOkMes = "false"
    /\ nI = MaxMonthSteps
    /\ cView = MonthKey(sDay) + MaxMonthSteps

\* C25: the calendar variant's selecionarDataComConfirmacao returns true
\* only when the day click reported success and the text of the date button
\* read after it equals the target string; an attempt that does not end so
\* is followed by the next attempt, which opens the picker again; the picker
\* is opened at most maxTentativas times, and false is returned only after
\* maxTentativas attempts.
C25_CalendarAcceptsOnlyEqualText ==
    /\ [](dVariant = "calendar" =>
            /\ (dPc = "done" /\ dOut = "true") =>
                  (kOkDia = "true" /\ dVisivel = dAlvo /\ Trim(LabelOf(sDay, sStyle)) = dAlvo)
            /\ dPc \in {"open", "nav", "day", "conf"} => dT <= dMaxT
            /\ (dPc = "done" /\ dOut = "false") => dT = dMaxT + 1)
    /\ [][(dVariant = "calendar" /\ dPc = "conf"
             /\ ~(kOkDia = "true" /\ Trim(LabelOf(sDay, sStyle)) = dAlvo)) =>
                (dPc' = "sel" /\ dT' = dT + 1 /\ dOut' = dOut)]_vars
    /\ [][(dVariant = "calendar" /\ dPc = "sel" /\ dT <= dMaxT) => dPc' = "open"]_vars

\* every attempt clicked a day and read a text that holds the target without
\* being equal to it: selecionarDataComConfirmacao returned false
C25_Witness ==
    /\ dVariant = "calendar"
    /\ dPc = "done"
    /\ dOut = "false"
    /\ dT = dMaxT + 1
    /\ kOkDia = "true"
    /\ dVisivel # dAlvo
    /\ Includes(dVisivel, dAlvo)

\* C26: whenever the click of selecionarUnidade has reached the confirm
\* control, the wait before it had seen the control enabled and the control
\* was enabled when it was clicked.
C26_ConfirmClickedOnlyEnabled ==
    uClicked = "clicked" => (uSeen /\ uBtnAtClick = "enabled")

\* C27: in every record extrairProcessosDaPauta returns, juiz, reclamante and
\* reclamada are the texts of the first, second and third description
\* element of the record's item, also when an earlier one is empty.
C27_DescriptionsMappedByPosition ==
    (xPc = "done" /\ xOut.kind = "returned" /\ Len(xOut.val) = Len(xList)) =>
        \A k \in DOMAIN xList :
            LET texts == [j \in DOMAIN xList[k].descs |-> getText(xList[k].descs[j])]
            IN  /\ xOut.val[k].juiz = PartOr(texts, 1)
                /\ xOut.val[k].reclamante = PartOr(texts, 2)
                /\ xOut.val[k].reclamada = PartOr(texts, 3)

\* C28: when selecionarDataComConfirmacao is called again with the same
\* target right after it returned true, the page not having changed, the
\* second call returns true as well, the date shown is the target's, and in
\* the stepper variant the second call clicks no control.
C28_TargetingIdempotent ==
    /\ [](dCall = 2 =>
            /\ dOut # "false"
            /\ dOut # "thrown"
            /\ dT = 1
            /\ dPc = "done" =>
                  /\ dOut = "true"
                  /\ sDay = parseBRDate(dAlvo)
                  /\ extrairDataBR(DisplayedDate) = dAlvo
            /\ dVariant = "stepper" => iFwd + iBack = 0)
    /\ [][(dCall = 2 /\ dVariant = "stepper") => UNCHANGED sDay]_vars

\* the stepper variant: the repeated call has returned true without a click
C28_Witness ==
    /\ dCall = 2
    /\ dPc = "done"
    /\ dOut = "true"
    /\ dVariant = "stepper"
    /\ iFwd + iBack = 0
    /\ sDay = parseBRDate(dAlvo)

\* C29: esperarPautaEstabilizar returns from inside its loop only when the
\* count polled in the previous iteration, the count polled in the current
\* iteration and the confirmation re-sample are all equal: it never returns
\* in its first iteration, the confirmation is taken only after the poll
\* equalled the previous iteration's poll, and the last two samples before
\* the return are equal.
C29_StableNeedsThreeEqualSamples ==
    /\ ePc = "confirm" => (eI >= 1 /\ eN >= 2 /\ ePrevPoll = eCount /\ eKind = "poll")
    /\ eOut = "stable" =>
          /\ eI >= 1
          /\ eN >= 3
          /\ eKind = "confirm"
          /\ ePrevPoll = eCount
          /\ ePrev = eCount
          /\ eRecent = eCount
          /\ eCount >= 0

\* the early return in an iteration after a confirmation that differed
C29_Witness ==
    /\ eOut = "stable"
    /\ ~eAllEqual
    /\ eI = 2
    /\ eN = 5

\* C30: at the start of every iteration of the loop after the first, last
\* equals the most recently sampled count, also when the confirmation
\* re-sample of the iteration before differed from that iteration's poll.
C30_LastIsMostRecentSample ==
    (ePc = "poll" /\ eI >= 1) => eLast = eRecent

\* the cell of row a comes before the cell of row b, or is the same: varas
\* in the order of varasAlvo and, within a vara, datas in the order of datas
C31_CellNotAfter(a, b) == a.vara < b.vara \/ (a.vara = b.vara /\ a.data <= b.data)

\* C31: rowsCsv is only appended to, and only by main's extraction step: the
\* rows already there are never removed or changed, every row appended
\* carries the vara and the data of the cell main is at, whose date targeting
\* returned true, and at every moment the rows lie grouped by vara in the
\* order of varasAlvo and, within a vara, by data in the order of datas.
C31_AccumulatorAppendOnly ==
    /\ [](/\ Len(rowsCsv) = mRows
          /\ \A i, j \in DOMAIN rowsCsv : i < j => C31_CellNotAfter(rowsCsv[i], rowsCsv[j])
          /\ \A i \in DOMAIN rowsCsv :
                /\ rowsCsv[i].vara \in 1..MaxUnits
                /\ rowsCsv[i].data \in 1..MaxDatas
                /\ C31_CellNotAfter(rowsCsv[i], [vara |-> mU, data |-> mD]))
    /\ [][/\ Len(rowsCsv') >= Len(rowsCsv)
          /\ SubSeq(rowsCsv', 1, Len(rowsCsv)) = rowsCsv
          /\ rowsCsv' # rowsCsv =>
                /\ mPc = "extract"
                /\ mOk = "true"
                /\ \A i \in (Len(rowsCsv) + 1)..Len(rowsCsv') :
                      rowsCsv'[i] = [vara |-> mU, data |-> mD]]_vars

\* rows of three cells have been accumulated, a fourth cell having been
\* skipped because its date targeting returned false
C31_Witness ==
    /\ mPc = "csv"
    /\ Len(rowsCsv) = 3 * MaxCount
    /\ \E i \in DOMAIN rowsCsv : rowsCsv[i] = [vara |-> 1, data |-> 1]
    /\ \E i \in DOMAIN rowsCsv : rowsCsv[i] = [vara |-> 1, data |-> MaxDatas]
    /\ \E i \in DOMAIN rowsCsv : rowsCsv[i] = [vara |-> MaxUnits, data |-> 1]
    /\ ~ \E i \in DOMAIN rowsCsv : rowsCsv[i] = [vara |-> MaxUnits, data |-> MaxDatas]

\* the rows of table pauta_processos that belong to the cell
C32_StoredOfCell ==
    SelectSeq(tRows, LAMBDA row : row.vara = CellVara /\ row.dataBR = CellData)

\* the rows of rowsCsv that belong to the cell
C32_AccumulatedOfCell ==
    SelectSeq(rowsCsv, LAMBDA row : row.vara = 1 /\ row.data = 1)

\* C32: after the records of a cell were submitted with insertRowsMySql on a
\* table that was empty, the table holds as many rows of that vara and date
\* as records were extracted and pushed on rowsCsv for the cell, also when
\* records of the cell share an identifier or have an empty one.
C32_StoreAgreesWithAccumulator ==
    xPc = "stored" =>
        /\ Len(C32_AccumulatedOfCell) = Len(xOut.val)
        /\ Len(C32_StoredOfCell) = Len(C32_AccumulatedOfCell)

====
